---- MODULE Spec2Model ----
(***************************************************************************)
(* Tide-table extraction core of tabua-mare: getTideData and its helpers,  *)
(* in the three revisions of the scraping service the repository holds     *)
(*   "ts" : src/src/services/tabua-de-mares.ts                             *)
(*   "p4" : src/unnamed/part_004  (month/year label, context on all paths) *)
(*   "p6" : src/unnamed/part_006  (text-blob cells, parseTideCell)         *)
(* and the server action in front of it (src/src/app/actions.ts).          *)
(*                                                                         *)
(* Text is a TLA+ string; an optional value (null / undefined in the       *)
(* source) is a sequence of length 0 or 1.                                 *)
(***************************************************************************)
EXTENDS Integers, Sequences, FiniteSets, TLC

None == <<>>
Some(x) == <<x>>
IsSome(o) == Len(o) = 1
Val(o) == o[1]

(***************************************************************************)
(* Bounds of the model.                                                    *)
(***************************************************************************)
\* longest generated height text of a tide cell
MaxLen == 3
\* most rows of a generated table
MaxRows == 2

(***************************************************************************)
(* String primitives of the JavaScript runtime, as the code uses them.     *)
(***************************************************************************)
Ch(s, i) == SubSeq(s, i, i)

Digits == {"0", "1", "2", "3", "4", "5", "6", "7", "8", "9"}

WhiteSpace == {" ", "\n", "\t"}

IsDigit(c) == c \in Digits

RECURSIVE TrimLeft(_)
TrimLeft(s) ==
    IF Len(s) > 0 /\ Ch(s, 1) \in WhiteSpace THEN TrimLeft(Tail(s)) ELSE s

RECURSIVE TrimRight(_)
TrimRight(s) ==
    IF Len(s) > 0 /\ Ch(s, Len(s)) \in WhiteSpace
    THEN TrimRight(SubSeq(s, 1, Len(s) - 1))
    ELSE s

\* String.prototype.trim
trim(s) == TrimRight(TrimLeft(s))

\* String.prototype.startsWith
StartsWith(s, p) == Len(s) >= Len(p) /\ SubSeq(s, 1, Len(p)) = p

\* /suffix$/.test(s)
EndsWith(s, p) == Len(s) >= Len(p) /\ SubSeq(s, Len(s) - Len(p) + 1, Len(s)) = p

\* index of the first occurrence of the one-character string c in s, 0 if none
RECURSIVE IndexFrom(_, _, _)
IndexFrom(s, c, i) ==
    IF i > Len(s) THEN 0
    ELSE IF Ch(s, i) = c THEN i
    ELSE IndexFrom(s, c, i + 1)

IndexOf(s, c) == IndexFrom(s, c, 1)

\* s.replace(',', '.'): a string pattern replaces the FIRST occurrence only
ReplaceFirstComma(s) ==
    LET i == IndexOf(s, ",")
    IN  IF i = 0 THEN s
        ELSE SubSeq(s, 1, i - 1) \o "." \o SubSeq(s, i + 1, Len(s))

\* s.split('\n')
RECURSIVE SplitLines(_)
SplitLines(s) ==
    LET i == IndexOf(s, "\n")
    IN  IF i = 0 THEN <<s>>
        ELSE <<SubSeq(s, 1, i - 1)>> \o SplitLines(SubSeq(s, i + 1, Len(s)))

\* s.replace(/\s+/g, ' ')
RECURSIVE CollapseSpaces(_)
CollapseSpaces(s) ==
    IF Len(s) = 0 THEN s
    ELSE IF Ch(s, 1) \in WhiteSpace
         THEN " " \o CollapseSpaces(TrimLeft(s))
         ELSE Ch(s, 1) \o CollapseSpaces(Tail(s))

\* /^\d{1,2}:\d{2}$/.test(s)
TimeShape(s) ==
    \/ /\ Len(s) = 4
       /\ IsDigit(Ch(s, 1)) /\ Ch(s, 2) = ":"
       /\ IsDigit(Ch(s, 3)) /\ IsDigit(Ch(s, 4))
    \/ /\ Len(s) = 5
       /\ IsDigit(Ch(s, 1)) /\ IsDigit(Ch(s, 2)) /\ Ch(s, 3) = ":"
       /\ IsDigit(Ch(s, 4)) /\ IsDigit(Ch(s, 5))

\* /^[0-9,.]+$/.test(s)
HeightShape(s) ==
    /\ Len(s) > 0
    /\ \A i \in 1..Len(s) : Ch(s, i) \in Digits \cup {",", "."}

\* s.match(/\d{1,2}:\d{2}/)?.[0] ?? null : the leftmost match, the two-digit
\* hour tried before the one-digit hour at each position
RECURSIVE MatchTimeFrom(_, _)
MatchTimeFrom(s, i) ==
    IF i > Len(s) THEN None
    ELSE IF i + 4 <= Len(s) /\ TimeShape(SubSeq(s, i, i + 4))
         THEN Some(SubSeq(s, i, i + 4))
    ELSE IF i + 3 <= Len(s) /\ TimeShape(SubSeq(s, i, i + 3))
         THEN Some(SubSeq(s, i, i + 3))
    ELSE MatchTimeFrom(s, i + 1)

MatchTime(s) == MatchTimeFrom(s, 1)

\* the longest prefix of s made of characters of the set cs
RECURSIVE TakeWhile(_, _)
TakeWhile(s, cs) ==
    IF Len(s) > 0 /\ Ch(s, 1) \in cs
    THEN Ch(s, 1) \o TakeWhile(Tail(s), cs)
    ELSE ""

\* the rest of s from its first character that is in the set cs
RECURSIVE DropUntil(_, _)
DropUntil(s, cs) ==
    IF Len(s) = 0 \/ Ch(s, 1) \in cs THEN s ELSE DropUntil(Tail(s), cs)

\* s.match(/([\d.,]+)/)?.[1] : the leftmost longest run of digits, dots, commas
MatchNumberRun(s) ==
    LET r == TakeWhile(DropUntil(s, Digits \cup {",", "."}), Digits \cup {",", "."})
    IN  IF r = "" THEN None ELSE Some(r)

DigitVal(c) ==
    CASE c = "0" -> 0 [] c = "1" -> 1 [] c = "2" -> 2 [] c = "3" -> 3
      [] c = "4" -> 4 [] c = "5" -> 5 [] c = "6" -> 6 [] c = "7" -> 7
      [] c = "8" -> 8 [] c = "9" -> 9

RECURSIVE DecValue(_)
DecValue(ds) ==
    IF Len(ds) = 0 THEN 0
    ELSE 10 * DecValue(SubSeq(ds, 1, Len(ds) - 1)) + DigitVal(Ch(ds, Len(ds)))

\* parseInt(s, 10): leading white space, an optional sign, then the longest
\* run of digits; NaN (None) when there is no digit
parseInt(s) ==
    LET t    == TrimLeft(s)
        neg  == Len(t) > 0 /\ Ch(t, 1) = "-"
        sgn  == Len(t) > 0 /\ Ch(t, 1) \in {"-", "+"}
        body == IF sgn THEN Tail(t) ELSE t
        ds   == TakeWhile(body, Digits)
    IN  IF ds = "" THEN None
        ELSE Some(IF neg THEN 0 - DecValue(ds) ELSE DecValue(ds))

(***************************************************************************)
(* The parsed document.  A cell (td) is the sequence of its leaf nodes in  *)
(* document order: a node has a tag, a class attribute, its text and (for  *)
(* an img) a src attribute.  A row (tr) has a class attribute and cells.   *)
(***************************************************************************)
Node(tag, cls, text) == [tag |-> tag, cls |-> cls, text |-> text, src |-> None]

TextNode(text) == Node("#text", "", text)

ImgNode(src) == [tag |-> "img", cls |-> "", text |-> "", src |-> Some(src)]

\* Element.textContent of a cell: the texts of its nodes, concatenated
RECURSIVE textContent(_)
textContent(cell) ==
    IF Len(cell) = 0 THEN "" ELSE Head(cell).text \o textContent(Tail(cell))

\* cell.querySelector('.' + cls)?.textContent : the first node of that class
RECURSIVE QueryClassText(_, _)
QueryClassText(cell, cls) ==
    IF Len(cell) = 0 THEN None
    ELSE IF Head(cell).cls = cls THEN Some(Head(cell).text)
    ELSE QueryClassText(Tail(cell), cls)

\* cell.querySelector('img')?.getAttribute('src') ?? null
RECURSIVE QueryImgSrc(_)
QueryImgSrc(cell) ==
    IF Len(cell) = 0 THEN None
    ELSE IF Head(cell).tag = "img" THEN Head(cell).src
    ELSE QueryImgSrc(Tail(cell))

\* x?.trim() on an optional text
TrimOpt(o) == IF IsSome(o) THEN Some(trim(Val(o))) ELSE None

\* truthiness of an optional text: present and not the empty string
Truthy(o) == IsSome(o) /\ Val(o) # ""

CLS_HORA == "tabla_mareas_marea_hora"
CLS_ALTURA == "tabla_mareas_marea_altura_numero"
CLS_DIA_NUMERO == "tabla_mareas_dia_numero"
CLS_DIA_DIA == "tabla_mareas_dia_dia"
CLS_SOL_SALIDA == "tabla_mareas_salida_puesta_sol_salida"
CLS_SOL_PUESTA == "tabla_mareas_salida_puesta_sol_puesta"
CLS_COEF == "tabla_mareas_coeficiente_numero"

TideEvent(time, height) == [time |-> time, height |-> height]

(***************************************************************************)
(* extractTideEvent, tabua-de-mares.ts and part_004: time and height are   *)
(* read from two class-tagged sub-elements of the cell.                    *)
(***************************************************************************)
extractTideEventHeightKeepComma(heightText) ==
    IF Truthy(heightText) /\ HeightShape(Val(heightText))
    THEN heightText
    ELSE None

\* heightText && /^[0-9,.]+$/.test(heightText) ? heightText.replace(',', '.') : null
extractTideEventHeight(heightText) ==
    IF Truthy(heightText) /\ HeightShape(Val(heightText))
    THEN Some(ReplaceFirstComma(Val(heightText)))
    ELSE None

extractTideEvent(cell) ==
    LET time       == TrimOpt(QueryClassText(cell, CLS_HORA))
        heightText == TrimOpt(QueryClassText(cell, CLS_ALTURA))
        height     == extractTideEventHeight(heightText)
    IN  IF Truthy(time) /\ Truthy(height)
        THEN IF ~TimeShape(Val(time)) THEN None
             ELSE Some(TideEvent(Val(time), Val(height)))
        ELSE None

(***************************************************************************)
(* parseTideCell, part_006: the cell's text is one blob, "0:49\n3,2 m".    *)
(***************************************************************************)
parseTideCellKeepComma(text) ==
    IF text = "" THEN None
    ELSE LET parts == SplitLines(trim(text))
         IN  IF Len(parts) < 2 THEN None
             ELSE LET time        == trim(parts[1])
                      heightMatch == MatchNumberRun(trim(parts[2]))
                  IN  IF time # "" /\ Truthy(heightMatch)
                      THEN Some(TideEvent(time, Val(heightMatch)))
                      ELSE None

parseTideCell(text) ==
    IF text = "" THEN None
    ELSE LET parts == SplitLines(trim(text))
         IN  IF Len(parts) < 2 THEN None
             ELSE LET time        == trim(parts[1])
                      heightMatch == MatchNumberRun(trim(parts[2]))
                      height      == IF IsSome(heightMatch)
                                     THEN Some(ReplaceFirstComma(Val(heightMatch)))
                                     ELSE None
                  IN  IF time # "" /\ Truthy(height)
                      THEN Some(TideEvent(time, Val(height)))
                      ELSE None

(***************************************************************************)
(* Row extraction: the body of rows.forEach in getTideData.  None is a     *)
(* row that pushes nothing to dailyTides.                                  *)
(***************************************************************************)
BASE_URL == "https://tabuademares.com"

MIN_CELLS == 8

ROW_CLASS_PREFIX == "tabla_mareas_fila tabla_mareas_fila_fondo"

\* s.includes(p)
RECURSIVE Contains(_, _)
Contains(s, p) ==
    IF Len(s) < Len(p) THEN FALSE
    ELSE StartsWith(s, p) \/ Contains(Tail(s), p)

\* element.classList: the white-space separated tokens of the class attribute
RECURSIVE classList(_)
classList(cls) ==
    LET t == TrimLeft(cls)
        w == TakeWhile(t, {Ch(t, i) : i \in 1..Len(t)} \ WhiteSpace)
    IN  IF t = "" THEN {}
        ELSE {w} \cup classList(SubSeq(t, Len(w) + 1, Len(t)))

\* tabua-de-mares.ts:184
IsSecondaryRowTsByContent(row) ==
    Len(row.cells) > 0 /\ ~IsSome(QueryClassText(row.cells[1], CLS_DIA_NUMERO))

IsSecondaryRowTs(row) ==
    \/ "tabla_mareas_fila_fondo1_2" \in classList(row.cls)
    \/ "tabla_mareas_fila_fondo2_2" \in classList(row.cls)
    \/ "tabla_mareas_fila_fondo3_22_2" \in classList(row.cls)

\* part_004:196  /_2(?:_2)?$/.test(row.className)
IsSecondaryRowP4(row) == EndsWith(row.cls, "_2") \/ EndsWith(row.cls, "_2_2")

\* cells[2]?.querySelector(sel)?.textContent?.trim(), then the first HH:MM token
SunTime(cell, cls) ==
    LET raw == TrimOpt(QueryClassText(cell, cls))
    IN  IF Truthy(raw) THEN MatchTime(Val(raw)) ELSE None

\* cells[7]?.querySelector(...)?.textContent?.replace(/\s+/g, ' ').trim() ?? null
Coefficient(cell) ==
    LET el == QueryClassText(cell, CLS_COEF)
    IN  IF IsSome(el) THEN Some(trim(CollapseSpaces(Val(el)))) ELSE None

DayOfMonthOrZero(cell) ==
    LET dayOfMonthStr == TrimOpt(QueryClassText(cell, CLS_DIA_NUMERO))
    IN  IF Truthy(dayOfMonthStr) THEN parseInt(Val(dayOfMonthStr)) ELSE Some(0)

\* dayOfMonthStr ? parseInt(dayOfMonthStr, 10) : NaN
DayOfMonth(cell) ==
    LET dayOfMonthStr == TrimOpt(QueryClassText(cell, CLS_DIA_NUMERO))
    IN  IF Truthy(dayOfMonthStr) THEN parseInt(Val(dayOfMonthStr)) ELSE None

DayOfWeek(cell) ==
    LET d == TrimOpt(QueryClassText(cell, CLS_DIA_DIA))
    IN  IF IsSome(d) THEN Val(d) ELSE ""

\* cells[1]?.querySelector('span[class*="icon-hs"]')
RECURSIVE HasMoonSpan(_)
HasMoonSpan(cell) ==
    IF Len(cell) = 0 THEN FALSE
    ELSE \/ Head(cell).tag = "span" /\ Contains(Head(cell).cls, "icon-hs")
         \/ HasMoonSpan(Tail(cell))

\* tabua-de-mares.ts:203-218
MoonPhaseIconSrcTs(cell) ==
    LET src == QueryImgSrc(cell)
        abs == IF Truthy(src) /\ ~StartsWith(Val(src), "http")
               THEN Some(BASE_URL \o Val(src))
               ELSE src
    IN  IF ~Truthy(abs) /\ HasMoonSpan(cell) THEN None ELSE abs

\* tabua-de-mares.ts:182-257
ExtractRowTs(row) ==
    IF IsSecondaryRowTs(row) THEN None
    ELSE IF Len(row.cells) < MIN_CELLS THEN None
    ELSE LET cells      == row.cells
             dayOfMonth == DayOfMonth(cells[1])
         IN  IF IsSome(dayOfMonth)
             THEN Some([dayOfMonth       |-> Val(dayOfMonth),
                        dayOfWeek        |-> DayOfWeek(cells[1]),
                        moonPhaseIconSrc |-> MoonPhaseIconSrcTs(cells[2]),
                        sunriseTime      |-> SunTime(cells[3], CLS_SOL_SALIDA),
                        sunsetTime       |-> SunTime(cells[3], CLS_SOL_PUESTA),
                        tide1            |-> extractTideEvent(cells[4]),
                        tide2            |-> extractTideEvent(cells[5]),
                        tide3            |-> extractTideEvent(cells[6]),
                        tide4            |-> extractTideEvent(cells[7]),
                        coefficient      |-> Coefficient(cells[8])])
             ELSE None

\* part_004:194-242
ExtractRowP4(row) ==
    IF IsSecondaryRowP4(row) THEN None
    ELSE IF Len(row.cells) < MIN_CELLS THEN None
    ELSE LET cells      == row.cells
             dayOfMonth == DayOfMonth(cells[1])
         IN  IF IsSome(dayOfMonth)
             THEN Some([dayOfMonth  |-> Val(dayOfMonth),
                        dayOfWeek   |-> DayOfWeek(cells[1]),
                        sunriseTime |-> SunTime(cells[3], CLS_SOL_SALIDA),
                        sunsetTime  |-> SunTime(cells[3], CLS_SOL_PUESTA),
                        tide1       |-> extractTideEvent(cells[4]),
                        tide2       |-> extractTideEvent(cells[5]),
                        tide3       |-> extractTideEvent(cells[6]),
                        tide4       |-> extractTideEvent(cells[7]),
                        coefficient |-> Coefficient(cells[8])])
             ELSE None

\* part_006:179  dayText?.match(/(\d+)(\D+)/): the first run of digits that a
\* non-digit follows, and the run of non-digits after it
DayMatch(dayText) ==
    LET t    == DropUntil(dayText, Digits)
        num  == TakeWhile(t, Digits)
        rest == SubSeq(t, Len(num) + 1, Len(t))
        chars == {Ch(rest, i) : i \in 1..Len(rest)}
    IN  IF t = "" \/ rest = "" THEN None
        ELSE Some([num |-> num, word |-> TakeWhile(rest, chars \ Digits)])

\* part_006:186-189  the lines of the sun cell's text, each trimmed
SunTimes(cell) ==
    LET parts == SplitLines(trim(textContent(cell)))
    IN  [i \in 1..Len(parts) |-> trim(parts[i])]

\* part_006:170-214
ExtractRowP6(row) ==
    IF Len(row.cells) < MIN_CELLS THEN None
    ELSE LET cells      == row.cells
             dayMatch   == DayMatch(trim(textContent(cells[1])))
             dayOfMonth == IF IsSome(dayMatch) THEN parseInt(Val(dayMatch).num) ELSE None
             moon       == QueryImgSrc(cells[2])
             sunTimes   == SunTimes(cells[3])
         IN  IF IsSome(dayOfMonth)
             THEN Some([dayOfMonth       |-> Val(dayOfMonth),
                        dayOfWeek        |-> Val(dayMatch).word,
                        moonPhaseIconSrc |-> IF Truthy(moon)
                                             THEN Some(BASE_URL \o Val(moon))
                                             ELSE None,
                        sunriseTime      |-> Some(sunTimes[1]),
                        sunsetTime       |-> IF Len(sunTimes) >= 2
                                             THEN Some(sunTimes[2]) ELSE None,
                        tide1            |-> parseTideCell(textContent(cells[4])),
                        tide2            |-> parseTideCell(textContent(cells[5])),
                        tide3            |-> parseTideCell(textContent(cells[6])),
                        tide4            |-> parseTideCell(textContent(cells[7])),
                        coefficient      |-> Some(trim(textContent(cells[8])))])
             ELSE None

ExtractRowDropMalformed(v, row) ==
    LET r == CASE v = "ts" -> ExtractRowTs(row)
               [] v = "p4" -> ExtractRowP4(row)
               [] v = "p6" -> ExtractRowP6(row)
    IN  IF IsSome(r) /\ Len(row.cells[5]) > 0 /\ Val(r).tide2 = None THEN None ELSE r

ExtractRowCompacted(v, row) ==
    LET r == CASE v = "ts" -> ExtractRowTs(row)
               [] v = "p4" -> ExtractRowP4(row)
               [] v = "p6" -> ExtractRowP6(row)
        ev == SelectSeq(<<Val(r).tide1, Val(r).tide2, Val(r).tide3, Val(r).tide4>>,
                        LAMBDA e : IsSome(e))
        slot(k) == IF k <= Len(ev) THEN ev[k] ELSE None
    IN  IF IsSome(r)
        THEN Some([Val(r) EXCEPT !.tide1 = slot(1), !.tide2 = slot(2),
                                 !.tide3 = slot(3), !.tide4 = slot(4)])
        ELSE None

\* the body of rows.forEach in the revision that runs
ExtractRow(v, row) ==
    CASE v = "ts" -> ExtractRowTs(row)
      [] v = "p4" -> ExtractRowP4(row)
      [] v = "p6" -> ExtractRowP6(row)

(***************************************************************************)
(* The fetched page.  table says where the tide table sits: "positional"   *)
(* at the path of the code's selector (body > section > div:nth-child(4)   *)
(* > ... > table), "elsewhere" a class-marked tide table off that path,    *)
(* "none" no tide table; tbody whether the table has a tbody; rows its tr  *)
(* elements; h1, monthYear and ctx the texts of the h1 element, of         *)
(* .tabla_mareas_copy_fecha and of the context block, when present.        *)
(***************************************************************************)
Page(h1, monthYear, ctx, table, tbody, rows) ==
    [h1 |-> h1, monthYear |-> monthYear, ctx |-> ctx,
     table |-> table, tbody |-> tbody, rows |-> rows]

\* the tr elements whose class attribute starts with the data-row prefix
RECURSIVE SelectRowsByPrefix(_)
SelectRowsByPrefix(rs) ==
    IF Len(rs) = 0 THEN <<>>
    ELSE IF StartsWith(Head(rs).cls, ROW_CLASS_PREFIX)
         THEN <<Head(rs)>> \o SelectRowsByPrefix(Tail(rs))
         ELSE SelectRowsByPrefix(Tail(rs))

TableFoundWithFallback(page) == page.table \in {"positional", "elsewhere"}

\* document.querySelector(tideTableSelector): one positional selector
TableFound(page) == page.table = "positional"

\* the tbody reached by the code's selectors
TableBodyFound(page) == TableFound(page) /\ page.tbody

\* tableBody.querySelectorAll(...): tr[class^=prefix] in tabua-de-mares.ts and
\* part_004, every tr in part_006
QueryRows(v, page) ==
    IF v = "p6" THEN page.rows ELSE SelectRowsByPrefix(page.rows)

\* document.querySelector(contextElementSelector)?.textContent?.trim() ?? null
ContextText(page) == TrimOpt(page.ctx)

\* document.querySelector('h1')?.textContent?.trim() ?? null
LocationHeader(page) == TrimOpt(page.h1)

\* part_004:155
MonthYearText(page) == TrimOpt(page.monthYear)

\* the value getTideData resolves to
Null == [kind |-> "null"]
Pending == [kind |-> "pending"]
ScrapedPageData(v, tides, ctx, header, monthYear) ==
    IF v = "p4"
    THEN [kind |-> "data", dailyTides |-> tides, pageContextText |-> ctx,
          locationHeader |-> header, monthYearText |-> monthYear]
    ELSE [kind |-> "data", dailyTides |-> tides, pageContextText |-> ctx,
          locationHeader |-> header]

EmptyResultAsFailure(v, page) == Null

\* the early returns on a missing table, tbody or row set: part_004 scrapes
\* the context block there (part_004:171-178), the other two return null for it
EmptyResult(v, page) ==
    ScrapedPageData(v, <<>>,
                    IF v = "p4" THEN ContextText(page) ELSE None,
                    LocationHeader(page), MonthYearText(page))

ResponseOkBelow500(status) == status >= 200 /\ status <= 499

\* response.ok
ResponseOk(status) == status >= 200 /\ status <= 299

Statuses == {200, 404, 500}

Variants == {"ts", "p4", "p6"}

StateSlugs == {"", "para"}

CitySlugs == {"", "belem"}

(***************************************************************************)
(* Markup the site serves: the cells of a data row and sample rows.        *)
(***************************************************************************)
DayCell(num, dia) ==
    (IF IsSome(num) THEN <<Node("div", CLS_DIA_NUMERO, Val(num))>> ELSE <<>>)
    \o <<Node("div", CLS_DIA_DIA, dia)>>

MoonCell == <<ImgNode("/assets/svg/moon.svg")>>

SunCell ==
    <<Node("span", CLS_SOL_SALIDA, " 6:08"), TextNode("\n"),
      Node("span", CLS_SOL_PUESTA, " 18:13")>>

\* a tide cell in the two-element encoding; an absent element is left out
TideCell(hora, altura, sep, unit) ==
    (IF IsSome(hora) THEN <<Node("div", CLS_HORA, Val(hora))>> ELSE <<>>)
    \o <<TextNode(sep)>>
    \o (IF IsSome(altura) THEN <<Node("span", CLS_ALTURA, Val(altura))>> ELSE <<>>)
    \o <<TextNode(unit)>>

\* a tide cell in the one-blob encoding
BlobCell(hora, altura, sep, unit) ==
    <<TextNode((IF IsSome(hora) THEN Val(hora) ELSE "") \o sep
               \o (IF IsSome(altura) THEN Val(altura) ELSE "") \o unit)>>

EmptyCell == <<>>

CoefCell == <<Node("div", CLS_COEF, "68\n medio")>>

DataRowClass == "tabla_mareas_fila tabla_mareas_fila_fondo1"

SecondaryRowClass == "tabla_mareas_fila tabla_mareas_fila_fondo1_2"

Row(cls, cells) == [cls |-> cls, cells |-> cells]

\* a well-formed day row with two tide events
ValidRow(day) ==
    Row(DataRowClass,
        <<DayCell(Some(day), "Qui"), MoonCell, SunCell,
          TideCell(Some("1:15"), Some("3,2"), "\n", " m"),
          TideCell(Some("7:30"), Some("0,4"), "\n", " m"),
          EmptyCell, EmptyCell, CoefCell, EmptyCell>>)

\* a day row whose second tide event has its time but no height
MissingHeightRow(day) ==
    Row(DataRowClass,
        <<DayCell(Some(day), "Sex"), MoonCell, SunCell,
          TideCell(Some("1:15"), Some("3,2"), "\n", " m"),
          TideCell(Some("7:30"), None, "\n", ""),
          EmptyCell, EmptyCell, CoefCell, EmptyCell>>)

SecondaryRow == Row(SecondaryRowClass, ValidRow("1").cells)

ShortRow == Row(DataRowClass, SubSeq(ValidRow("5").cells, 1, 7))

NoDayRow ==
    Row(DataRowClass, <<DayCell(None, "Sab")>> \o Tail(ValidRow("6").cells))

\* a row without the data-row class marker and without td cells
HeaderRow == Row("tabla_mareas_cabecera", <<>>)

\* a day row with four tide events, its cells in the order of the day
FourTideRow(day) ==
    Row(DataRowClass,
        <<DayCell(Some(day), "Dom"), MoonCell, SunCell,
          TideCell(Some("0:49"), Some("3,2"), "\n", " m"),
          TideCell(Some("7:02"), Some("0,5"), "\n", " m"),
          TideCell(Some("13:10"), Some("3,0"), "\n", " m"),
          TideCell(Some("19:25"), Some("0,6"), "\n", " m"),
          CoefCell, EmptyCell>>)

\* a day row with four tide events whose cells are not in the order of the day
UnsortedTideRow(day) ==
    Row(DataRowClass,
        <<DayCell(Some(day), "Seg"), MoonCell, SunCell,
          TideCell(Some("13:10"), Some("3,0"), "\n", " m"),
          TideCell(Some("0:49"), Some("3,2"), "\n", " m"),
          TideCell(Some("19:25"), Some("0,6"), "\n", " m"),
          TideCell(Some("7:02"), Some("0,5"), "\n", " m"),
          CoefCell, EmptyCell>>)

SampleRows ==
    {ValidRow("1"), MissingHeightRow("4"), SecondaryRow, ShortRow, NoDayRow,
     HeaderRow}

\* all sequences over S of length at most n
RECURSIVE SeqsUpTo(_, _)
SeqsUpTo(S, n) ==
    IF n = 0 THEN {<<>>}
    ELSE LET shorter == SeqsUpTo(S, n - 1)
         IN  shorter \cup {Append(q, x) : q \in shorter, x \in S}

\* the fixture of three valid rows and one row with a tide missing its height,
\* the malformed row at each position
FixtureTables ==
    LET valid == <<ValidRow("1"), ValidRow("2"), ValidRow("3")>>
    IN  {SubSeq(valid, 1, k) \o <<MissingHeightRow("4")>> \o SubSeq(valid, k + 1, 3)
           : k \in 0..3}

\* tables of one or two days with four tide events each
FourTideTables ==
    LET days == {FourTideRow("7"), UnsortedTideRow("8")}
    IN  {<<a>> : a \in days} \cup {<<a, b>> : a \in days, b \in days}

\* a day row whose first tide cell is empty and whose third lacks its height
GapTideRow(day) ==
    Row(DataRowClass,
        <<DayCell(Some(day), "Ter"), MoonCell, SunCell,
          EmptyCell,
          TideCell(Some("7:02"), Some("0,5"), "\n", " m"),
          TideCell(Some("13:10"), None, "\n", ""),
          TideCell(Some("19:25"), Some("0,6"), "\n", " m"),
          CoefCell, EmptyCell>>)

\* tables with a day of two tide events and a day whose events leave gaps
GapTideTables == {<<GapTideRow("9")>>, <<ValidRow("1"), GapTideRow("9")>>}

Tables ==
    SeqsUpTo(SampleRows, MaxRows) \cup FixtureTables \cup FourTideTables
    \cup GapTideTables

HeaderTexts == {None, Some(" Tabua de mares de Belem ")}

MonthYearTexts == {None, Some("maio de 2025")}

ContextTexts == {None, Some(" Atividade media \n")}

\* a table without tbody has no tr: the HTML parser puts every tr in a tbody
Pages ==
    LET withRows ==
            {Page(h, m, c, t, b, rs) :
                h \in HeaderTexts, m \in MonthYearTexts, c \in ContextTexts,
                t \in {"positional", "elsewhere"}, b \in {TRUE}, rs \in Tables}
        withoutRows ==
            {Page(h, m, c, t, FALSE, <<>>) :
                h \in HeaderTexts, m \in MonthYearTexts, c \in ContextTexts,
                t \in {"none", "positional"}}
    IN  {page : page \in withRows \cup withoutRows}

(***************************************************************************)
(* Generated markup: every tide cell over bounded texts, and every day row *)
(* over a choice of class, cell count, day, sun, tide and coefficient      *)
(* cells.                                                                  *)
(***************************************************************************)
\* all strings over the one-character strings of A, of length at most n
RECURSIVE StringsUpTo(_, _)
StringsUpTo(A, n) ==
    IF n = 0 THEN {""}
    ELSE LET shorter == StringsUpTo(A, n - 1)
         IN  shorter \cup {t \o c : t \in shorter, c \in A}

HeightAlphabet == {"3", ",", ".", "-"}

\* texts of the height element: a generated text, bare or with the unit
HeightTexts == {t \o u : t \in StringsUpTo(HeightAlphabet, MaxLen), u \in {"", " m"}}

TimeTexts == {"1:15", "01:15", " 7:30 ", "7:3", "12:345", "1h15", ""}

OptionsOf(S) == {None} \cup {Some(x) : x \in S}

TideCells ==
    {TideCell(h, a, sep, u) :
        h \in OptionsOf(TimeTexts), a \in OptionsOf(HeightTexts),
        sep \in {"\n", ""}, u \in {"", " m"}}
    \cup
    {BlobCell(h, a, "\n", u) :
        h \in OptionsOf(TimeTexts), a \in OptionsOf(HeightTexts), u \in {"", " m"}}

DayTexts == {"1", "31", " 7 ", "0", "45", "-3", "12abc", "3.5", "abc", "x1", ""}

SunCells ==
    {SunCell, EmptyCell,
     <<Node("span", CLS_SOL_SALIDA, "--"), TextNode("\n"),
       Node("span", CLS_SOL_PUESTA, "as 18:13h")>>}

RowTide1Cells ==
    {EmptyCell,
     TideCell(Some("1:15"), Some("3,2"), "\n", " m"),
     TideCell(Some("1:15"), None, "\n", ""),
     TideCell(Some("1h15"), Some("3,2"), "\n", " m"),
     TideCell(Some("1:15"), Some("1,2,3"), "\n", " m")}

RowTide2Cells == {EmptyCell, TideCell(Some("7:30"), Some("0,4"), "\n", " m")}

\* a coefficient cell whose own class and text carry the secondary-row marker
MarkedCoefCell == <<Node("div", CLS_COEF \o " tabla_mareas_fila_fondo1_2", "68_2")>>

CoefCells == {CoefCell, EmptyCell, MarkedCoefCell}

\* the first n cells of a nine-cell row
GenRows ==
    {Row(cls, SubSeq(<<DayCell(d, "Qui"), MoonCell, sun, t1, t2,
                       EmptyCell, EmptyCell, coef, EmptyCell>>, 1, n)) :
        cls \in {DataRowClass, SecondaryRowClass}, n \in {7, 8, 9},
        d \in OptionsOf(DayTexts), sun \in SunCells,
        t1 \in RowTide1Cells, t2 \in RowTide2Cells, coef \in CoefCells}

\* pages whose tide table, at the positional path, holds one generated row
RowPages ==
    {Page(Some("Tabua de mares de Belem"), None, None, "positional", TRUE, <<r>>) :
        r \in GenRows}

(***************************************************************************)
(* normalizeToSlug.  Its input may hold any character, so here a text is   *)
(* the sequence of its code points.                                        *)
(***************************************************************************)
\* the characters \s matches and trim removes
JsWhiteSpace ==
    {9, 10, 11, 12, 13, 32, 160, 5760, 8232, 8233, 8239, 8287, 12288, 65279}
    \cup 8192..8202

\* the Latin-1 letters with a canonical decomposition: base letter and mark
Decomposition ==
    [c \in {224, 225, 226, 227, 231, 233, 234, 237, 243, 244, 245, 250} |->
        CASE c = 224 -> <<97, 768>>  [] c = 225 -> <<97, 769>>
          [] c = 226 -> <<97, 770>>  [] c = 227 -> <<97, 771>>
          [] c = 231 -> <<99, 807>>  [] c = 233 -> <<101, 769>>
          [] c = 234 -> <<101, 770>> [] c = 237 -> <<105, 769>>
          [] c = 243 -> <<111, 769>> [] c = 244 -> <<111, 770>>
          [] c = 245 -> <<111, 771>> [] c = 250 -> <<117, 769>>]

\* String.prototype.toLowerCase, on ASCII and Latin-1 letters
toLowerCase(t) ==
    [i \in 1..Len(t) |->
        IF t[i] \in 65..90 \/ (t[i] \in 192..222 /\ t[i] # 215)
        THEN t[i] + 32 ELSE t[i]]

\* String.prototype.normalize("NFD")
RECURSIVE NFD(_)
NFD(t) ==
    IF Len(t) = 0 THEN <<>>
    ELSE LET c == Head(t)
         IN  (IF c \in DOMAIN Decomposition THEN Decomposition[c]
              ELSE IF c + 32 \in DOMAIN Decomposition
              THEN <<Decomposition[c + 32][1] - 32, Decomposition[c + 32][2]>>
              ELSE <<c>>)
             \o NFD(Tail(t))

\* replace(/[\u0300-\u036f]/g, "")
StripMarks(t) == SelectSeq(t, LAMBDA c : c \notin 768..879)

RemoveInvalidAndHyphen(t) ==
    SelectSeq(t, LAMBDA c : c \in 97..122 \/ c \in 48..57 \/ c \in JsWhiteSpace)

\* replace(/[^a-z0-9\s-]/g, '')
RemoveInvalid(t) ==
    SelectSeq(t, LAMBDA c : \/ c \in 97..122 \/ c \in 48..57
                            \/ c \in JsWhiteSpace \/ c = 45)

\* String.prototype.trim
RECURSIVE TrimText(_)
TrimText(t) ==
    IF Len(t) > 0 /\ Head(t) \in JsWhiteSpace THEN TrimText(Tail(t))
    ELSE IF Len(t) > 0 /\ t[Len(t)] \in JsWhiteSpace
         THEN TrimText(SubSeq(t, 1, Len(t) - 1))
    ELSE t

\* replace(/\s+/g, '-')
RECURSIVE Hyphenate(_)
Hyphenate(t) ==
    IF Len(t) = 0 THEN <<>>
    ELSE IF Head(t) \in JsWhiteSpace
         THEN IF Len(t) > 1 /\ t[2] \in JsWhiteSpace
              THEN Hyphenate(Tail(t))
              ELSE <<45>> \o Hyphenate(Tail(t))
    ELSE <<Head(t)>> \o Hyphenate(Tail(t))

normalizeToSlugKeepSpaces(input) ==
    IF input = <<>> THEN <<>>
    ELSE TrimText(RemoveInvalid(StripMarks(NFD(toLowerCase(input)))))

\* tabua-de-mares.ts:65-74
normalizeToSlug(input) ==
    IF input = <<>> THEN <<>>
    ELSE Hyphenate(TrimText(RemoveInvalid(StripMarks(NFD(toLowerCase(input))))))

\* part_002:63-72, the location picker's copy: trim comes before the removal
normalizeToSlugPicker(input) ==
    IF input = <<>> THEN <<>>
    ELSE Hyphenate(RemoveInvalid(TrimText(StripMarks(NFD(toLowerCase(input))))))

\* longest generated input of normalizeToSlug
MaxSlugLen == 4

\* A, a, 1, hyphen, space, !, A with tilde, combining tilde
SlugAlphabet == {65, 97, 49, 45, 32, 33, 195, 771}

\* all texts over the code points of A, of length at most n
RECURSIVE TextsUpTo(_, _)
TextsUpTo(A, n) ==
    IF n = 0 THEN {<<>>}
    ELSE LET shorter == TextsUpTo(A, n - 1)
         IN  shorter \cup {Append(t, c) : t \in shorter, c \in A}

\* "São Luís"
SaoLuis == <<83, 227, 111, 32, 76, 117, 237, 115>>

\* " Belém  do Pará! "
BelemDoPara ==
    <<32, 66, 101, 108, 233, 109, 32, 32, 100, 111, 32, 80, 97, 114, 225, 33, 32>>

SlugInputs == TextsUpTo(SlugAlphabet, MaxSlugLen) \cup {SaoLuis, BelemDoPara}

(***************************************************************************)
(* State of one extraction call.                                           *)
(***************************************************************************)
VARIABLES
    variant,        \* which revision of the service runs
    entry,          \* "action": through fetchTideDataAction; "service": direct
    stateSlug,      \* argument of the call
    citySlug,       \* argument of the call
    apc,            \* position of fetchTideDataAction
    pc,             \* position of getTideData
    fetchCount,     \* requests issued by fetchHtml
    response,       \* how the fetch settled, None while it has not
    html,           \* the parsed document, None before the fetch succeeded
    rows,           \* the row set of the located table
    rowIdx,         \* next row rows.forEach visits
    dailyTides,     \* the array the rows are pushed to
    pageContextText,\* the context text scraped after the rows
    result,         \* what getTideData resolved to
    actionResult,   \* what fetchTideDataAction resolved to
    fnName,         \* function applied to fnArg, "none" before
    fnArg,          \* input of a helper applied on its own
    fnOut,          \* the helper's output
    peer,           \* the locals of a second call in flight, None without one
    picker,         \* which revision of the TideFinder component is mounted
    mounted,        \* the component's mount effect has run
    selectedState,  \* selectedState / selectedStateSlug
    selectedCity,   \* selectedCity, the city chosen from the list
    cityName,       \* cityName, the text typed in the city input
    cities,         \* the city list of the selected state
    scrapedData,    \* the result the component holds, None for null
    error,          \* the error message the component holds, None for null
    isLoading,      \* isLoadingTides / isPending of the fetch transition
    toast,          \* title of the last toast, None before the first
    localStorage,   \* the browser's storage: key to value, None for no item
    picked          \* history: the state, the city and the typed city name
                    \* of the user's last choices

callVars ==
    <<variant, entry, stateSlug, citySlug, apc, pc, fetchCount, response, html,
      rows, rowIdx, dailyTides, pageContextText, result, actionResult>>

fnVars == <<fnName, fnArg, fnOut>>

uiVars ==
    <<picker, mounted, selectedState, selectedCity, cityName, cities,
      scrapedData, error, isLoading, toast, localStorage, picked>>

vars == <<callVars, fnVars, peer, uiVars>>

Terminal == {"Success", "CriticalFailure"}

\* the state in which no call has been made
CallIdle ==
    /\ apc = "idle"
    /\ pc = "idle"
    /\ fetchCount = 0
    /\ response = None
    /\ html = None
    /\ rows = <<>>
    /\ rowIdx = 0
    /\ dailyTides = <<>>
    /\ pageContextText = None
    /\ result = Pending
    /\ actionResult = Pending

FnIdle == fnName = "none" /\ fnArg = None /\ fnOut = None

STORAGE_KEYS == {"selectedState", "selectedCity", "selectedStateSlug"}

\* no component on the page, nothing stored
PickerIdle ==
    /\ picker = "p2"
    /\ mounted = FALSE
    /\ selectedState = ""
    /\ selectedCity = ""
    /\ cityName = <<>>
    /\ cities = <<>>
    /\ scrapedData = None
    /\ error = None
    /\ isLoading = FALSE
    /\ toast = None
    /\ localStorage = [k \in STORAGE_KEYS |-> None]
    /\ picked = [state |-> "", city |-> "", cityName |-> <<>>]

Init ==
    /\ variant \in Variants
    /\ entry \in {"action", "service"}
    /\ stateSlug \in StateSlugs
    /\ citySlug \in CitySlugs
    /\ CallIdle
    /\ FnIdle
    /\ peer = None
    /\ PickerIdle

InvalidInputStateOnly == stateSlug = ""

\* !stateSlug || !citySlug
InvalidInput == stateSlug = "" \/ citySlug = ""

\* actions.ts:56-66  fetchTideDataAction up to its await of getTideData
ActionEnter ==
    /\ entry = "action"
    /\ apc = "idle"
    /\ IF InvalidInput
       THEN apc' = "returned" /\ actionResult' = Null
       ELSE apc' = "awaiting" /\ actionResult' = actionResult
    /\ UNCHANGED <<variant, entry, stateSlug, citySlug, pc, fetchCount, response,
                   html, rows, rowIdx, dailyTides, pageContextText, result>>
    /\ UNCHANGED <<fnVars, peer, uiVars>>

\* getTideData up to the await of fetch: the guard, then fetchHtml's request
Call ==
    /\ pc = "idle"
    /\ entry = "service" \/ apc = "awaiting"
    /\ IF InvalidInput
       THEN /\ pc' = "CriticalFailure"
            /\ result' = Null
            /\ fetchCount' = fetchCount
       ELSE /\ pc' = "Requesting"
            /\ result' = result
            /\ fetchCount' = fetchCount + 1
    /\ UNCHANGED <<variant, entry, stateSlug, citySlug, apc, response, html,
                   rows, rowIdx, dailyTides, pageContextText, actionResult>>
    /\ UNCHANGED <<fnVars, peer, uiVars>>

\* how a fetch can settle: the request rejects, or a response arrives whose
\* body can or cannot be read
Rejected == [kind |-> "reject", status |-> 0, bodyOk |-> FALSE]
Responded(status, bodyOk) == [kind |-> "response", status |-> status, bodyOk |-> bodyOk]

\* fetchHtml throws: fetch rejected, !response.ok, or response.text() rejected
FetchHtmlThrows(r) ==
    \/ r.kind = "reject"
    \/ ~ResponseOk(r.status)
    \/ ~r.bodyOk

FetchFailsThenRetries ==
    /\ pc = "Requesting"
    /\ \E r \in {Rejected} \cup {Responded(st, b) : st \in Statuses, b \in BOOLEAN} :
          /\ FetchHtmlThrows(r)
          /\ response' = Some(r)
    /\ fetchCount' = fetchCount + 1
    /\ UNCHANGED <<variant, entry, stateSlug, citySlug, apc, pc, html, rows, rowIdx,
                   dailyTides, pageContextText, result, actionResult>>
    /\ UNCHANGED <<fnVars, peer, uiVars>>

\* fetchHtml throws and getTideData's catch returns null
FetchFails ==
    /\ pc = "Requesting"
    /\ \E r \in {Rejected} \cup {Responded(st, b) : st \in Statuses, b \in BOOLEAN} :
          /\ FetchHtmlThrows(r)
          /\ response' = Some(r)
    /\ pc' = "CriticalFailure"
    /\ result' = Null
    /\ UNCHANGED <<variant, entry, stateSlug, citySlug, apc, fetchCount, html,
                   rows, rowIdx, dailyTides, pageContextText, actionResult>>
    /\ UNCHANGED <<fnVars, peer, uiVars>>

\* fetchHtml returns the markup and JSDOM parses it; the served page is one
\* of PageSet
FetchOkFrom(PageSet) ==
    /\ pc = "Requesting"
    /\ \E st \in Statuses, page \in PageSet :
          /\ ~FetchHtmlThrows(Responded(st, TRUE))
          /\ response' = Some(Responded(st, TRUE))
          /\ html' = Some(page)
    /\ pc' = "Fetched"
    /\ UNCHANGED <<variant, entry, stateSlug, citySlug, apc, fetchCount,
                   rows, rowIdx, dailyTides, pageContextText, result, actionResult>>
    /\ UNCHANGED <<fnVars, peer, uiVars>>

FetchOk == FetchOkFrom(Pages)

\* the table is reached and has data rows
TableLocated(v, page) ==
    /\ IF v = "p4" THEN TableBodyFound(page)
       ELSE TableFound(page) /\ TableBodyFound(page)
    /\ Len(QueryRows(v, page)) # 0

\* header, table, tbody and rows are queried; the early returns of an absent
\* table, tbody or row set resolve the call with an empty dailyTides
Locate ==
    /\ pc = "Fetched"
    /\ IF TableLocated(variant, Val(html))
       THEN /\ pc' = "Located"
            /\ rows' = QueryRows(variant, Val(html))
            /\ rowIdx' = 1
            /\ result' = result
       ELSE /\ pc' = "Success"
            /\ rows' = rows
            /\ rowIdx' = rowIdx
            /\ result' = EmptyResult(variant, Val(html))
    /\ UNCHANGED <<variant, entry, stateSlug, citySlug, apc, fetchCount, response,
                   html, dailyTides, pageContextText, actionResult>>
    /\ UNCHANGED <<fnVars, peer, uiVars>>

ExtractNextRowUnshift ==
    /\ pc = "Located"
    /\ rowIdx <= Len(rows)
    /\ dailyTides' = ExtractRow(variant, rows[rowIdx]) \o dailyTides
    /\ rowIdx' = rowIdx + 1
    /\ UNCHANGED <<variant, entry, stateSlug, citySlug, apc, pc, fetchCount,
                   response, html, rows, pageContextText, result, actionResult>>
    /\ UNCHANGED <<fnVars, peer, uiVars>>

ExtractNextRowStopAtShort ==
    /\ pc = "Located"
    /\ rowIdx <= Len(rows)
    /\ dailyTides' = dailyTides \o ExtractRow(variant, rows[rowIdx])
    /\ rowIdx' = IF Len(rows[rowIdx].cells) < MIN_CELLS THEN Len(rows) + 1
                  ELSE rowIdx + 1
    /\ UNCHANGED <<variant, entry, stateSlug, citySlug, apc, pc, fetchCount,
                   response, html, rows, pageContextText, result, actionResult>>
    /\ UNCHANGED <<fnVars, peer, uiVars>>

\* one turn of rows.forEach
ExtractNextRow ==
    /\ pc = "Located"
    /\ rowIdx <= Len(rows)
    /\ dailyTides' = dailyTides \o ExtractRow(variant, rows[rowIdx])
    /\ rowIdx' = rowIdx + 1
    /\ UNCHANGED <<variant, entry, stateSlug, citySlug, apc, pc, fetchCount,
                   response, html, rows, pageContextText, result, actionResult>>
    /\ UNCHANGED <<fnVars, peer, uiVars>>

FinishRowsThenRelocate ==
    /\ pc = "Located"
    /\ rowIdx > Len(rows)
    /\ pc' = "Fetched"
    /\ UNCHANGED <<variant, entry, stateSlug, citySlug, apc, fetchCount, response,
                   html, rows, rowIdx, dailyTides, pageContextText, result,
                   actionResult>>
    /\ UNCHANGED <<fnVars, peer, uiVars>>

\* rows.forEach has visited every row
FinishRows ==
    /\ pc = "Located"
    /\ rowIdx > Len(rows)
    /\ pc' = "Extracted"
    /\ UNCHANGED <<variant, entry, stateSlug, citySlug, apc, fetchCount, response,
                   html, rows, rowIdx, dailyTides, pageContextText, result,
                   actionResult>>
    /\ UNCHANGED <<fnVars, peer, uiVars>>

AssembleAwaitsContext ==
    /\ pc = "Extracted"
    /\ IsSome(ContextText(Val(html)))
    /\ pageContextText' = ContextText(Val(html))
    /\ pc' = "Assembled"
    /\ UNCHANGED <<variant, entry, stateSlug, citySlug, apc, fetchCount, response,
                   html, rows, rowIdx, dailyTides, result, actionResult>>
    /\ UNCHANGED <<fnVars, peer, uiVars>>

\* the context block is scraped
Assemble ==
    /\ pc = "Extracted"
    /\ pageContextText' = ContextText(Val(html))
    /\ pc' = "Assembled"
    /\ UNCHANGED <<variant, entry, stateSlug, citySlug, apc, fetchCount, response,
                   html, rows, rowIdx, dailyTides, result, actionResult>>
    /\ UNCHANGED <<fnVars, peer, uiVars>>

\* return { dailyTides, pageContextText, locationHeader(, monthYearText) }
Return ==
    /\ pc = "Assembled"
    /\ result' = ScrapedPageData(variant, dailyTides, pageContextText,
                                 LocationHeader(Val(html)), MonthYearText(Val(html)))
    /\ pc' = "Success"
    /\ UNCHANGED <<variant, entry, stateSlug, citySlug, apc, fetchCount, response,
                   html, rows, rowIdx, dailyTides, pageContextText, actionResult>>
    /\ UNCHANGED <<fnVars, peer, uiVars>>

\* actions.ts:66-76  data === null ? null : data
ActionReturn ==
    /\ apc = "awaiting"
    /\ pc \in Terminal
    /\ actionResult' = IF result = Null THEN Null ELSE result
    /\ apc' = "returned"
    /\ UNCHANGED <<variant, entry, stateSlug, citySlug, pc, fetchCount, response,
                   html, rows, rowIdx, dailyTides, pageContextText, result>>
    /\ UNCHANGED <<fnVars, peer, uiVars>>

Next ==
    \/ ActionEnter
    \/ Call
    \/ FetchFails
    \/ FetchOk
    \/ Locate
    \/ ExtractNextRow
    \/ FinishRows
    \/ Assemble
    \/ Return
    \/ ActionReturn

Spec == Init /\ [][Next]_vars

\* the steps of getTideData after the await of fetchHtml other than a turn of
\* rows.forEach
SyncStep == Locate \/ FinishRows \/ Assemble \/ Return

\* rows.forEach goes on to the next row
ForEachAdvances ==
    /\ pc = "Located"
    /\ rowIdx <= Len(rows)
    /\ rowIdx' = rowIdx + 1

\* the call with its synchronous part run to completion: the code after the
\* await is not suspended; when the fetch settles is left to the network
SpecLive ==
    Init /\ [][Next]_vars /\ WF_vars(SyncStep) /\ WF_rowIdx(ForEachAdvances)

(***************************************************************************)
(* The call on a page of one generated row.                                *)
(***************************************************************************)
InitRow ==
    /\ variant \in Variants
    /\ entry = "service"
    /\ stateSlug = "para"
    /\ citySlug = "belem"
    /\ CallIdle
    /\ FnIdle
    /\ peer = None
    /\ PickerIdle

FetchOkRowPage == FetchOkFrom(RowPages)

NextRow ==
    \/ Call
    \/ FetchOkRowPage
    \/ Locate
    \/ ExtractNextRow
    \/ FinishRows
    \/ Assemble
    \/ Return

SpecRow == InitRow /\ [][NextRow]_vars

(***************************************************************************)
(* The tide-cell helpers applied on their own to every generated cell.     *)
(***************************************************************************)
InitTideCell ==
    /\ variant = "ts"
    /\ entry = "service"
    /\ stateSlug = "para"
    /\ citySlug = "belem"
    /\ CallIdle
    /\ fnName = "none"
    /\ fnArg \in {Some(c) : c \in TideCells}
    /\ fnOut = None
    /\ peer = None
    /\ PickerIdle

\* tideN = extractTideEvent(cells[N + 2])
RunExtractTideEvent ==
    /\ fnName = "none"
    /\ IsSome(fnArg)
    /\ fnName' = "extractTideEvent"
    /\ fnOut' = extractTideEvent(Val(fnArg))
    /\ UNCHANGED fnArg
    /\ UNCHANGED <<callVars, peer, uiVars>>

\* tideN = parseTideCell(cells[N + 2]?.textContent)
RunParseTideCell ==
    /\ fnName = "none"
    /\ IsSome(fnArg)
    /\ fnName' = "parseTideCell"
    /\ fnOut' = parseTideCell(textContent(Val(fnArg)))
    /\ UNCHANGED fnArg
    /\ UNCHANGED <<callVars, peer, uiVars>>

NextTideCell == RunExtractTideEvent \/ RunParseTideCell

SpecTideCell == InitTideCell /\ [][NextTideCell]_vars

(***************************************************************************)
(* Two calls in flight at once.  The variables of the call hold the locals *)
(* of the call that runs; peer holds the locals of the call that waits.    *)
(* getTideData keeps everything in locals of the function, so a switch     *)
(* between the calls exchanges all of them.                                *)
(***************************************************************************)
Locals(id) ==
    [id |-> id, stateSlug |-> stateSlug, citySlug |-> citySlug, pc |-> pc,
     fetchCount |-> fetchCount, response |-> response, html |-> html,
     rows |-> rows, rowIdx |-> rowIdx, dailyTides |-> dailyTides,
     pageContextText |-> pageContextText, result |-> result]

\* a call that has not started
IdleLocals(id, st, ci) ==
    [id |-> id, stateSlug |-> st, citySlug |-> ci, pc |-> "idle",
     fetchCount |-> 0, response |-> None, html |-> None,
     rows |-> <<>>, rowIdx |-> 0, dailyTides |-> <<>>,
     pageContextText |-> None, result |-> Pending]

\* the pages served to the two calls
PairPages ==
    {Page(Some("Tabua de mares de Belem"), None, Some(" Atividade media \n"),
          "positional", TRUE,
          <<ValidRow("1"), MissingHeightRow("4"), ValidRow("2"), ValidRow("3")>>),
     Page(Some("Tabua de mares de Soure"), None, None, "positional", TRUE,
          <<UnsortedTideRow("8"), SecondaryRow, FourTideRow("7")>>),
     Page(Some("Tabua de mares"), None, None, "none", FALSE, <<>>)}

InitPair ==
    /\ variant \in Variants
    /\ entry = "service"
    /\ stateSlug = "para"
    /\ citySlug \in CitySlugs
    /\ CallIdle
    /\ FnIdle
    /\ peer \in {Some(IdleLocals(2, "para", ci)) : ci \in CitySlugs}
    /\ PickerIdle

FetchOkPair == FetchOkFrom(PairPages)

SwitchSharingDailyTides ==
    /\ IsSome(peer)
    /\ LET p == Val(peer)
       IN  /\ stateSlug' = p.stateSlug
           /\ citySlug' = p.citySlug
           /\ pc' = p.pc
           /\ fetchCount' = p.fetchCount
           /\ response' = p.response
           /\ html' = p.html
           /\ rows' = p.rows
           /\ rowIdx' = p.rowIdx
           /\ dailyTides' = dailyTides
           /\ pageContextText' = p.pageContextText
           /\ result' = p.result
           /\ peer' = Some(Locals(3 - p.id))
    /\ UNCHANGED <<variant, entry, apc, actionResult>>
    /\ UNCHANGED <<fnVars, uiVars>>

\* the call that runs is suspended and the other call goes on
Switch ==
    /\ IsSome(peer)
    /\ LET p == Val(peer)
       IN  /\ stateSlug' = p.stateSlug
           /\ citySlug' = p.citySlug
           /\ pc' = p.pc
           /\ fetchCount' = p.fetchCount
           /\ response' = p.response
           /\ html' = p.html
           /\ rows' = p.rows
           /\ rowIdx' = p.rowIdx
           /\ dailyTides' = p.dailyTides
           /\ pageContextText' = p.pageContextText
           /\ result' = p.result
           /\ peer' = Some(Locals(3 - p.id))
    /\ UNCHANGED <<variant, entry, apc, actionResult>>
    /\ UNCHANGED <<fnVars, uiVars>>

NextPair ==
    \/ Call
    \/ FetchFails
    \/ FetchOkPair
    \/ Locate
    \/ ExtractNextRow
    \/ FinishRows
    \/ Assemble
    \/ Return
    \/ Switch

SpecPair == InitPair /\ [][NextPair]_vars

(***************************************************************************)
(* The call when the code inside the try of getTideData throws after the   *)
(* fetch: new JSDOM(html) throws, or a DOM operation throws while the      *)
(* table is located, the rows are visited or the context is scraped.  The  *)
(* catch of getTideData takes each of them.                                *)
(***************************************************************************)

\* fetchHtml returned the markup and new JSDOM(html) throws
DomThrows ==
    /\ pc = "Requesting"
    /\ \E st \in Statuses :
          /\ ~FetchHtmlThrows(Responded(st, TRUE))
          /\ response' = Some(Responded(st, TRUE))
    /\ pc' = "CriticalFailure"
    /\ result' = Null
    /\ UNCHANGED <<variant, entry, stateSlug, citySlug, apc, fetchCount, html,
                   rows, rowIdx, dailyTides, pageContextText, actionResult>>
    /\ UNCHANGED <<fnVars, peer, uiVars>>

TraversalThrowsUncaught ==
    /\ pc \in {"Fetched", "Located", "Extracted", "Assembled"}
    /\ pc' = "Rejected"
    /\ UNCHANGED <<variant, entry, stateSlug, citySlug, apc, fetchCount, response,
                   html, rows, rowIdx, dailyTides, pageContextText, result,
                   actionResult>>
    /\ UNCHANGED <<fnVars, peer, uiVars>>

\* a DOM operation throws between the parse of the document and the return
TraversalThrows ==
    /\ pc \in {"Fetched", "Located", "Extracted", "Assembled"}
    /\ pc' = "CriticalFailure"
    /\ result' = Null
    /\ UNCHANGED <<variant, entry, stateSlug, citySlug, apc, fetchCount, response,
                   html, rows, rowIdx, dailyTides, pageContextText, actionResult>>
    /\ UNCHANGED <<fnVars, peer, uiVars>>

NextThrow ==
    \/ ActionEnter
    \/ Call
    \/ FetchFails
    \/ FetchOkPair
    \/ DomThrows
    \/ Locate
    \/ ExtractNextRow
    \/ FinishRows
    \/ Assemble
    \/ Return
    \/ TraversalThrows
    \/ ActionReturn

SpecThrow == Init /\ [][NextThrow]_vars

(***************************************************************************)
(* normalizeToSlug applied on its own, once and then to its own output.    *)
(***************************************************************************)
InitSlug ==
    /\ variant = "ts"
    /\ entry = "service"
    /\ stateSlug = "para"
    /\ citySlug = "belem"
    /\ CallIdle
    /\ fnName = "none"
    /\ fnArg \in {Some(t) : t \in SlugInputs}
    /\ fnOut = None
    /\ peer = None
    /\ PickerIdle

\* normalizeToSlug(input), the service's function
RunNormalizeToSlug ==
    /\ fnName = "none"
    /\ fnName' = "normalizeToSlug"
    /\ fnOut' = Some(normalizeToSlug(Val(fnArg)))
    /\ UNCHANGED fnArg
    /\ UNCHANGED <<callVars, peer, uiVars>>

\* normalizeToSlug(input), the picker's function
RunNormalizeToSlugPicker ==
    /\ fnName = "none"
    /\ fnName' = "normalizeToSlugPicker"
    /\ fnOut' = Some(normalizeToSlugPicker(Val(fnArg)))
    /\ UNCHANGED fnArg
    /\ UNCHANGED <<callVars, peer, uiVars>>

\* the function applied to the slug it returned
RunNormalizeToSlugAgain ==
    /\ fnName \in {"normalizeToSlug", "normalizeToSlugPicker"}
    /\ fnName' = fnName \o " again"
    /\ fnArg' = fnOut
    /\ fnOut' = IF fnName = "normalizeToSlug"
                THEN Some(normalizeToSlug(Val(fnOut)))
                ELSE Some(normalizeToSlugPicker(Val(fnOut)))
    /\ UNCHANGED <<callVars, peer, uiVars>>

NextSlug ==
    \/ RunNormalizeToSlug
    \/ RunNormalizeToSlugPicker
    \/ RunNormalizeToSlugAgain

SpecSlug == InitSlug /\ [][NextSlug]_vars

(***************************************************************************)
(* The location picker, the TideFinder component, in three revisions       *)
(*   "tf" : src/src/components/tide-finder.tsx  (state and city lists)     *)
(*   "p3" : src/unnamed/part_003                (state and city lists)     *)
(*   "p2" : src/unnamed/part_002:1-373          (state list, typed city)   *)
(* Names are written without their accents.                                *)
(***************************************************************************)
locationsTf ==
    <<
     [state |-> "Para",
      cities |-> <<"Ananindeua", "Belem", "Salinopolis">>],
     [state |-> "Maranhao",
      cities |-> <<"Sao Luis", "Alcantara">>],
     [state |-> "Ceara",
      cities |-> <<"Fortaleza", "Jericoacoara">>],
     [state |-> "Rio de Janeiro",
      cities |-> <<"Rio de Janeiro", "Niteroi", "Arraial do Cabo">>],
     [state |-> "Sao Paulo",
      cities |-> <<"Santos", "Ubatuba">>]
    >>

locationsP3 ==
    <<
     [state |-> "Alagoas",
      cities |-> <<"Maceio", "Maragogi", "Barra de Sao Miguel">>],
     [state |-> "Amapa",
      cities |-> <<"Macapa", "Oiapoque", "Santana">>],
     [state |-> "Amazonas",
      cities |-> <<"Manaus", "Parintins", "Itacoatiara", "Tefe">>],
     [state |-> "Bahia",
      cities |-> <<"Salvador", "Porto Seguro", "Ilheus", "Itacare", "Caravelas", "Valenca", "Prado">>],
     [state |-> "Ceara",
      cities |-> <<"Fortaleza", "Jericoacoara", "Canoa Quebrada", "Camocim", "Icapui", "Aracati">>],
     [state |-> "Espirito Santo",
      cities |-> <<"Vitoria", "Guarapari", "Vila Velha", "Aracruz", "Sao Mateus", "Conceicao da Barra">>],
     [state |-> "Maranhao",
      cities |-> <<"Sao Luis", "Alcantara", "Barreirinhas", "Tutoia", "Raposa">>],
     [state |-> "Para",
      cities |-> <<"Belem", "Salinopolis", "Santarem", "Maraba", "Soure", "Vigia", "Braganca", "Mosqueiro">>],
     [state |-> "Paraiba",
      cities |-> <<"Joao Pessoa", "Cabedelo", "Pitimbu", "Baia da Traicao">>],
     [state |-> "Parana",
      cities |-> <<"Paranagua", "Guaratuba", "Matinhos", "Antonina", "Pontal do Parana">>],
     [state |-> "Pernambuco",
      cities |-> <<"Recife", "Olinda", "Porto de Galinhas", "Fernando de Noronha", "Ipojuca", "Cabo de Santo Agostinho", "Tamandare", "Goiana">>],
     [state |-> "Piaui",
      cities |-> <<"Parnaiba", "Luis Correia", "Cajueiro da Praia">>],
     [state |-> "Rio de Janeiro",
      cities |-> <<"Rio de Janeiro", "Niteroi", "Arraial do Cabo", "Buzios", "Angra dos Reis", "Paraty", "Macae", "Cabo Frio", "Mangaratiba", "Sepetiba">>],
     [state |-> "Rio Grande do Norte",
      cities |-> <<"Natal", "Pipa", "Mossoro", "Galinhos", "Sao Miguel do Gostoso", "Tibau do Sul">>],
     [state |-> "Rio Grande do Sul",
      cities |-> <<"Rio Grande", "Tramandai", "Torres", "Pelotas", "Sao Jose do Norte", "Cassino">>],
     [state |-> "Rondonia",
      cities |-> <<"Porto Velho">>],
     [state |-> "Santa Catarina",
      cities |-> <<"Florianopolis", "Balneario Camboriu", "Itajai", "Sao Francisco do Sul", "Imbituba", "Laguna", "Itapoa", "Bombinhas">>],
     [state |-> "Sao Paulo",
      cities |-> <<"Santos", "Ubatuba", "Guaruja", "Sao Sebastiao", "Ilhabela", "Cananeia", "Bertioga", "Caraguatatuba", "Iguape">>],
     [state |-> "Sergipe",
      cities |-> <<"Aracaju", "Estancia", "Pirambu">>],
     [state |-> "Tocantins",
      cities |-> <<"Palmas">>]
    >>

BRAZILIAN_STATES ==
    <<
     [name |-> "Acre", slug |-> "acre", apiSlug |-> None],
     [name |-> "Alagoas", slug |-> "alagoas", apiSlug |-> None],
     [name |-> "Amapa", slug |-> "amapa", apiSlug |-> None],
     [name |-> "Amazonas", slug |-> "amazonas", apiSlug |-> None],
     [name |-> "Bahia", slug |-> "bahia", apiSlug |-> None],
     [name |-> "Ceara", slug |-> "ceara", apiSlug |-> None],
     [name |-> "Distrito Federal", slug |-> "distrito-federal", apiSlug |-> None],
     [name |-> "Espirito Santo", slug |-> "espirito-santo", apiSlug |-> None],
     [name |-> "Goias", slug |-> "goias", apiSlug |-> None],
     [name |-> "Maranhao", slug |-> "maranhao", apiSlug |-> None],
     [name |-> "Mato Grosso", slug |-> "mato-grosso", apiSlug |-> None],
     [name |-> "Mato Grosso do Sul", slug |-> "mato-grosso-do-sul", apiSlug |-> None],
     [name |-> "Minas Gerais", slug |-> "minas-gerais", apiSlug |-> None],
     [name |-> "Para", slug |-> "para", apiSlug |-> None],
     [name |-> "Paraiba", slug |-> "paraiba", apiSlug |-> None],
     [name |-> "Parana", slug |-> "parana", apiSlug |-> None],
     [name |-> "Pernambuco", slug |-> "pernambuco", apiSlug |-> None],
     [name |-> "Piaui", slug |-> "piaui", apiSlug |-> None],
     [name |-> "Rio de Janeiro", slug |-> "rio-de-janeiro", apiSlug |-> None],
     [name |-> "Rio Grande do Norte", slug |-> "rio-grande-do-norte", apiSlug |-> None],
     [name |-> "Rio Grande do Sul", slug |-> "rio-grande-do-sul", apiSlug |-> None],
     [name |-> "Rondonia", slug |-> "rondonia", apiSlug |-> None],
     [name |-> "Roraima", slug |-> "roraima", apiSlug |-> None],
     [name |-> "Santa Catarina", slug |-> "santa-catarina", apiSlug |-> None],
     [name |-> "Sao Paulo", slug |-> "sao-paulo", apiSlug |-> Some("so-paulo")],
     [name |-> "Sergipe", slug |-> "sergipe", apiSlug |-> None],
     [name |-> "Tocantins", slug |-> "tocantins", apiSlug |-> None]
    >>

Pickers == {"tf", "p3", "p2"}

\* most entries of a list the user chooses from
MaxChoices == 2

\* the location table of the revision
locations(p) == IF p = "tf" THEN locationsTf ELSE locationsP3

\* Object.keys(locations)
states(p) == [i \in 1..Len(locations(p)) |-> locations(p)[i].state]

\* s.includes(x)
Includes(s, x) == \E i \in 1..Len(s) : s[i] = x

\* locations[state]: the city list of the state, None for undefined
CitiesOf(p, state) ==
    IF Includes(states(p), state)
    THEN Some(locations(p)[CHOOSE i \in 1..Len(locations(p)) :
                               locations(p)[i].state = state].cities)
    ELSE None

\* locations[state] || []
CitiesOrEmpty(p, state) ==
    IF IsSome(CitiesOf(p, state)) THEN Val(CitiesOf(p, state)) ELSE <<>>

\* BRAZILIAN_STATES.find(s => s.slug === slug)
FindState(slug) ==
    IF \E i \in 1..Len(BRAZILIAN_STATES) : BRAZILIAN_STATES[i].slug = slug
    THEN Some(BRAZILIAN_STATES[CHOOSE i \in 1..Len(BRAZILIAN_STATES) :
                                   BRAZILIAN_STATES[i].slug = slug])
    ELSE None

StateSlugForApiDisplay(stateInfo) == stateInfo.slug

\* stateInfo.apiSlug || stateInfo.slug
StateSlugForApi(stateInfo) ==
    IF Truthy(stateInfo.apiSlug) THEN Val(stateInfo.apiSlug) ELSE stateInfo.slug

\* the text of a slug, from its code points
RECURSIVE SlugText(_)
SlugText(t) ==
    IF Len(t) = 0 THEN ""
    ELSE LET c == Head(t)
         IN  (CASE c \in 97..122 -> Ch("abcdefghijklmnopqrstuvwxyz", c - 96)
                [] c \in 48..57  -> Ch("0123456789", c - 47)
                [] c = 45        -> "-")
             \o SlugText(Tail(t))

\* the states offered by the state select that the user picks from
StateChoices(p) ==
    IF p = "p2" THEN {"para", "sao-paulo"}
    ELSE {states(p)[i] : i \in 1..MaxChoices}

\* the cities offered by the city select that the user picks from
CityChoices == {cities[i] : i \in 1..(IF Len(cities) < MaxChoices
                                      THEN Len(cities) ELSE MaxChoices)}

\* "Belém", " ", "!" and nothing, typed in the city input
CityInputs == {<<>>, <<32>>, <<33>>, <<66, 101, 108, 233, 109>>}

\* the pages served to the picker's requests
PickerPages == PairPages

MSG_INCOMPLETE == "Por favor, selecione um estado e digite o nome da cidade."
MSG_CRITICAL == "Ocorreu um erro critico ao buscar os dados da mare"
MSG_NOT_FOUND == "Nao foram encontrados dados de mare detalhados"
MSG_INTERNAL == "Erro interno ao iniciar busca de dados da mare."

\* localStorage.setItem(key, value), localStorage.removeItem(key)
SetItem(store, key, value) == [store EXCEPT ![key] = Some(value)]

RemoveItem(store, key) == [store EXCEPT ![key] = None]

\* a page with the component is opened
InitPicker ==
    /\ variant \in Variants
    /\ entry = "action"
    /\ stateSlug = ""
    /\ citySlug = ""
    /\ CallIdle
    /\ FnIdle
    /\ peer = None
    /\ picker \in Pickers
    /\ mounted = FALSE
    /\ selectedState = ""
    /\ selectedCity = ""
    /\ cityName = <<>>
    /\ cities = <<>>
    /\ scrapedData = None
    /\ error = None
    /\ isLoading = FALSE
    /\ toast = None
    /\ localStorage = [k \in STORAGE_KEYS |-> None]
    /\ picked = [state |-> "", city |-> "", cityName |-> <<>>]

\* tide-finder.tsx:36-52  the mount effect
MountTf ==
    LET savedState == localStorage["selectedState"]
        savedCity  == localStorage["selectedCity"]
    IN  IF Truthy(savedState) /\ IsSome(CitiesOf("tf", Val(savedState)))
        THEN /\ selectedState' = Val(savedState)
             /\ cities' = Val(CitiesOf("tf", Val(savedState)))
             /\ selectedCity' =
                    IF Truthy(savedCity) /\ Includes(cities', Val(savedCity))
                    THEN Val(savedCity) ELSE selectedCity
        ELSE /\ selectedState' = states("tf")[1]
             /\ cities' = CitiesOrEmpty("tf", states("tf")[1])
             /\ selectedCity' = selectedCity

\* part_003:54-79  the mount effect
MountP3 ==
    LET savedState   == localStorage["selectedState"]
        savedCity    == localStorage["selectedCity"]
        initialState == IF Truthy(savedState) /\ IsSome(CitiesOf("p3", Val(savedState)))
                        THEN Val(savedState)
                        ELSE IF Includes(states("p3"), "Rio de Janeiro")
                             THEN "Rio de Janeiro" ELSE states("p3")[1]
    IN  /\ selectedState' = initialState
        /\ cities' = CitiesOrEmpty("p3", initialState)
        /\ selectedCity' =
               IF Truthy(savedCity) /\ Includes(cities', Val(savedCity))
               THEN Val(savedCity) ELSE selectedCity

\* part_002:101-108  the mount effect
MountP2 ==
    LET savedStateSlug == localStorage["selectedStateSlug"]
    IN  /\ selectedState' =
               IF Truthy(savedStateSlug) /\ IsSome(FindState(Val(savedStateSlug)))
               THEN Val(savedStateSlug) ELSE selectedState
        /\ UNCHANGED <<cities, selectedCity>>

\* the component mounts: its effect restores the saved location
Mount ==
    /\ ~mounted
    /\ mounted' = TRUE
    /\ CASE picker = "tf" -> MountTf
         [] picker = "p3" -> MountP3
         [] picker = "p2" -> MountP2
    /\ cityName' = <<>>
    /\ UNCHANGED <<picker, scrapedData, error, isLoading, toast, localStorage, picked>>
    /\ UNCHANGED <<callVars, fnVars, peer>>

\* the page is left or reloaded: the component's state is gone, the storage stays
Unmount ==
    /\ mounted
    /\ mounted' = FALSE
    /\ selectedState' = ""
    /\ selectedCity' = ""
    /\ cityName' = <<>>
    /\ cities' = <<>>
    /\ scrapedData' = None
    /\ error' = None
    /\ isLoading' = FALSE
    /\ UNCHANGED <<picker, toast, localStorage, picked>>
    /\ UNCHANGED <<callVars, fnVars, peer>>

\* tide-finder.tsx:55-64, part_003:83-92, part_002:161-172
HandleStateChange ==
    /\ mounted
    /\ picker = "p2" => ~isLoading
    /\ \E value \in StateChoices(picker) :
          /\ selectedState' = value
          /\ picked' = [state |-> value, city |-> "", cityName |-> <<>>]
          /\ IF picker = "p2"
             THEN /\ cities' = cities
                  /\ localStorage' =
                        IF value # ""
                        THEN SetItem(localStorage, "selectedStateSlug", value)
                        ELSE RemoveItem(localStorage, "selectedStateSlug")
             ELSE /\ cities' = CitiesOrEmpty(picker, value)
                  /\ localStorage' =
                        RemoveItem(SetItem(localStorage, "selectedState", value),
                                   "selectedCity")
    /\ selectedCity' = ""
    /\ cityName' = <<>>
    /\ scrapedData' = None
    /\ error' = None
    /\ UNCHANGED <<picker, mounted, isLoading, toast>>
    /\ UNCHANGED <<callVars, fnVars, peer>>

\* tide-finder.tsx:67-76, part_003:95-104
HandleCityChange ==
    /\ mounted
    /\ picker \in {"tf", "p3"}
    /\ selectedState # "" /\ Len(cities) # 0
    /\ \E value \in CityChoices :
          /\ selectedCity' = value
          /\ picked' = [picked EXCEPT !.city = value]
          /\ localStorage' =
                IF value # ""
                THEN SetItem(localStorage, "selectedCity", value)
                ELSE RemoveItem(localStorage, "selectedCity")
    /\ scrapedData' = None
    /\ error' = None
    /\ UNCHANGED <<picker, mounted, selectedState, cityName, cities, isLoading, toast>>
    /\ UNCHANGED <<callVars, fnVars, peer>>

\* part_002:174-180
HandleCityInputChange ==
    /\ mounted
    /\ picker = "p2"
    /\ selectedState # "" /\ ~isLoading
    /\ \E text \in CityInputs :
          /\ cityName' = text
          /\ picked' = [picked EXCEPT !.cityName = text]
    /\ IF scrapedData # None \/ error # None
       THEN scrapedData' = None /\ error' = None
       ELSE UNCHANGED <<scrapedData, error>>
    /\ UNCHANGED <<picker, mounted, selectedState, selectedCity, cities, isLoading,
                   toast, localStorage>>
    /\ UNCHANGED <<callVars, fnVars, peer>>

\* part_002:187  selectedStateSlug && cityName.trim() && !isCurrentlyLoading
canFetchTides == selectedState # "" /\ TrimText(cityName) # <<>> /\ ~isLoading

\* part_002:111-132  handleFetchTides up to the await of fetchTideDataAction
HandleFetchTides ==
    /\ mounted
    /\ picker = "p2"
    /\ canFetchTides
    /\ LET stateInfo          == FindState(selectedState)
           normalizedCityName == TrimText(cityName)
       IN  IF ~IsSome(stateInfo) \/ normalizedCityName = <<>>
           THEN /\ error' = Some(MSG_INCOMPLETE)
                /\ toast' = Some("Selecao Incompleta")
                /\ UNCHANGED <<isLoading, callVars>>
           ELSE /\ error' = None
                /\ toast' = toast
                /\ isLoading' = TRUE
                /\ entry' = "action"
                /\ stateSlug' = StateSlugForApi(Val(stateInfo))
                /\ citySlug' = SlugText(normalizeToSlugPicker(normalizedCityName))
                /\ apc' = "idle"
                /\ pc' = "idle"
                /\ fetchCount' = 0
                /\ response' = None
                /\ html' = None
                /\ rows' = <<>>
                /\ rowIdx' = 0
                /\ dailyTides' = <<>>
                /\ pageContextText' = None
                /\ result' = Pending
                /\ actionResult' = Pending
                /\ variant' = variant
    /\ scrapedData' = None
    /\ UNCHANGED <<picker, mounted, selectedState, selectedCity, cityName, cities,
                   localStorage, picked>>
    /\ UNCHANGED <<fnVars, peer>>

FetchOkPicker == FetchOkFrom(PickerPages)

\* part_002:132-147  the transition after fetchTideDataAction has returned
FetchSettled ==
    /\ mounted
    /\ picker = "p2"
    /\ isLoading
    /\ apc = "returned"
    /\ LET data == actionResult
       IN  IF data = Null
           THEN /\ error' = Some(MSG_CRITICAL)
                /\ toast' = Some("Erro de Rede/Servidor")
                /\ scrapedData' = None
           ELSE IF Len(data.dailyTides) = 0
           THEN /\ error' = Some(MSG_NOT_FOUND)
                /\ scrapedData' = Some(data)
                /\ toast' = Some("Dados Nao Encontrados")
           ELSE /\ error' = error
                /\ scrapedData' = Some(data)
                /\ toast' = Some("Dados Carregados!")
    /\ isLoading' = FALSE
    /\ UNCHANGED <<picker, mounted, selectedState, selectedCity, cityName, cities,
                   localStorage, picked>>
    /\ UNCHANGED <<callVars, fnVars, peer>>

\* part_002:148-152  the call of the server action rejects
FetchTransitionThrows ==
    /\ mounted
    /\ picker = "p2"
    /\ isLoading
    /\ apc # "returned"
    /\ error' = Some(MSG_INTERNAL)
    /\ toast' = Some("Erro Interno")
    /\ scrapedData' = None
    /\ isLoading' = FALSE
    /\ UNCHANGED <<picker, mounted, selectedState, selectedCity, cityName, cities,
                   localStorage, picked>>
    /\ UNCHANGED <<callVars, fnVars, peer>>

\* tide-finder.tsx:90,110  part_003:118,138  the messages of the select picker
MSG_UNAVAILABLE == "Nao foi possivel obter os dados da mare para esta localizacao"
MSG_FETCH_ERROR == "Ocorreu um erro ao buscar os dados da mare"

\* tide-finder.tsx:79-93, part_003:107-122  handleFetchTides up to the await of
\* fetchTideDataAction(selectedState, selectedCity); the button that calls it
\* is disabled unless both are chosen and no transition is pending
\* (tide-finder.tsx:178, part_003:206), the two selects are not
HandleFetchTidesSelect ==
    /\ mounted
    /\ picker \in {"tf", "p3"}
    /\ ~isLoading
    /\ IF selectedState = "" \/ selectedCity = ""
       THEN FALSE
       ELSE /\ error' = None
            /\ scrapedData' = None
            /\ isLoading' = TRUE
            /\ entry' = "action"
            /\ stateSlug' = selectedState
            /\ citySlug' = selectedCity
            /\ apc' = "idle"
            /\ pc' = "idle"
            /\ fetchCount' = 0
            /\ response' = None
            /\ html' = None
            /\ rows' = <<>>
            /\ rowIdx' = 0
            /\ dailyTides' = <<>>
            /\ pageContextText' = None
            /\ result' = Pending
            /\ actionResult' = Pending
            /\ variant' = variant
    /\ UNCHANGED <<picker, mounted, selectedState, selectedCity, cityName, cities,
                   toast, localStorage, picked>>
    /\ UNCHANGED <<fnVars, peer>>

\* tide-finder.tsx:93-108, part_003:122-136  the transition after
\* fetchTideDataAction has returned: tideData is the list of entries
FetchSettledSelect ==
    /\ mounted
    /\ picker \in {"tf", "p3"}
    /\ isLoading
    /\ apc = "returned"
    /\ LET data == actionResult
       IN  IF data = Null \/ Len(data.dailyTides) = 0
           THEN /\ error' = Some(MSG_UNAVAILABLE)
                /\ toast' = Some("Erro ao buscar dados")
                /\ scrapedData' = scrapedData
           ELSE /\ error' = error
                /\ scrapedData' = Some(data)
                /\ toast' = Some("Dados da mare carregados!")
    /\ isLoading' = FALSE
    /\ UNCHANGED <<picker, mounted, selectedState, selectedCity, cityName, cities,
                   localStorage, picked>>
    /\ UNCHANGED <<callVars, fnVars, peer>>

\* tide-finder.tsx:109-117, part_003:137-145  the call of the server action rejects
FetchTransitionThrowsSelect ==
    /\ mounted
    /\ picker \in {"tf", "p3"}
    /\ isLoading
    /\ apc # "returned"
    /\ error' = Some(MSG_FETCH_ERROR)
    /\ toast' = Some("Erro de Rede")
    /\ isLoading' = FALSE
    /\ UNCHANGED <<picker, mounted, selectedState, selectedCity, cityName, cities,
                   scrapedData, localStorage, picked>>
    /\ UNCHANGED <<callVars, fnVars, peer>>

\* tide-finder.tsx:197, part_003:225  tideData && tideData.length > 0
showTideTable == scrapedData # None /\ Len(Val(scrapedData).dailyTides) > 0

\* part_002:186-196  the render flags
showNoTidesFoundMessage ==
    /\ scrapedData # None
    /\ Len(Val(scrapedData).dailyTides) = 0
    /\ ~isLoading
    /\ error = None

showResults ==
    /\ scrapedData # None
    /\ Len(Val(scrapedData).dailyTides) > 0
    /\ ~isLoading

showInitialPrompt ==
    /\ scrapedData = None
    /\ ~isLoading
    /\ error = None
    /\ selectedState = "" \/ TrimText(cityName) = <<>>

showReadyToFetchPrompt ==
    /\ scrapedData = None
    /\ ~isLoading
    /\ error = None
    /\ selectedState # ""
    /\ TrimText(cityName) # <<>>

showGenericError == error # None /\ scrapedData = None /\ ~isLoading

\* part_002:274-279  the alert: rendered or not, and its title
AlertRendered == error # None /\ (showGenericError \/ showNoTidesFoundMessage)

AlertTitle == IF showGenericError THEN "Falha na Busca" ELSE "Sem Dados de Mare"

\* the service call runs only for a fetch the component started
PickerCall ==
    /\ isLoading
    /\ \/ ActionEnter
       \/ Call
       \/ FetchFails
       \/ FetchOkPicker
       \/ Locate
       \/ ExtractNextRow
       \/ FinishRows
       \/ Assemble
       \/ Return
       \/ ActionReturn

NextPicker ==
    \/ Mount
    \/ Unmount
    \/ HandleStateChange
    \/ HandleCityChange
    \/ HandleCityInputChange
    \/ HandleFetchTides
    \/ HandleFetchTidesSelect
    \/ PickerCall
    \/ FetchSettled
    \/ FetchSettledSelect
    \/ FetchTransitionThrows
    \/ FetchTransitionThrowsSelect

SpecPicker == InitPicker /\ [][NextPicker]_vars

(***************************************************************************)
(* Properties of the extraction call.                                      *)
(***************************************************************************)
FetchedPage == Val(html)

\* the fetch failed in transport or with a status outside 200..299
FetchFailed ==
    /\ IsSome(response)
    /\ \/ Val(response).kind = "reject"
       \/ Val(response).status < 200
       \/ Val(response).status >= 300
       \/ ~Val(response).bodyOk

\* C1: a call whose fetch fails in transport or returns a non-2xx status ends
\* with the failure signal null, never with a ScrapedPageData
C1_FetchFailureIsNull ==
    FetchFailed =>
        /\ pc = "CriticalFailure"
        /\ result = Null
        /\ html = None
        /\ apc = "returned" => actionResult = Null

C1_Witness404 ==
    /\ IsSome(response)
    /\ Val(response).kind = "response"
    /\ Val(response).status = 404
    /\ pc = "CriticalFailure"
    /\ result = Null
    /\ apc = "returned"
    /\ actionResult = Null

\* the rows of the page that carry the data-row class marker
DataRowCount(page) ==
    Cardinality({i \in 1..Len(page.rows) :
                    page.rows[i].cls \in {DataRowClass, SecondaryRowClass}})

\* the page has no tide table where the code looks, or that table has no rows
TableAbsentOrEmpty ==
    /\ IsSome(html)
    /\ \/ FetchedPage.table # "positional"
       \/ ~FetchedPage.tbody
       \/ FetchedPage.rows = <<>>
       \/ variant # "p6" /\ DataRowCount(FetchedPage) = 0

\* C2: after a successful fetch, an absent table region or one with zero data
\* rows ends the call in Success with dailyTides = [], never in the failure signal
C2_NoTableIsEmptySuccess ==
    (TableAbsentOrEmpty /\ pc # "Fetched") =>
        /\ pc = "Success"
        /\ result.kind = "data"
        /\ result.dailyTides = <<>>
        /\ apc = "returned" => actionResult = result

C2_WitnessZeroRows ==
    /\ IsSome(html)
    /\ FetchedPage.table = "positional"
    /\ FetchedPage.tbody
    /\ FetchedPage.rows = <<>>
    /\ pc = "Success"
    /\ result.kind = "data"
    /\ result.dailyTides = <<>>

\* C3: the empty result of an absent or empty table carries the header text and
\* the context text whenever those regions are present in the markup
C3_EmptyResultCarriesTexts ==
    (TableAbsentOrEmpty /\ pc = "Success") =>
        /\ IsSome(result.locationHeader) <=> IsSome(FetchedPage.h1)
        /\ IsSome(result.pageContextText) <=> IsSome(FetchedPage.ctx)

\* C5: with an empty stateSlug or citySlug the call returns the failure signal
\* and no fetch is issued
C5_InvalidInputNoFetch ==
    (stateSlug = "" \/ citySlug = "") =>
        /\ fetchCount = 0
        /\ response = None
        /\ pc \in {"idle", "CriticalFailure"}
        /\ pc = "CriticalFailure" => result = Null
        /\ apc \in {"idle", "returned"}
        /\ apc = "returned" => actionResult = Null

C5_WitnessRejected ==
    /\ citySlug = ""
    /\ stateSlug # ""
    /\ fetchCount = 0
    /\ \/ entry = "service" /\ pc = "CriticalFailure" /\ result = Null
       \/ entry = "action" /\ apc = "returned" /\ actionResult = Null

\* the call succeeded on the fixture: a located table of three valid rows and
\* one row whose tide event misses its height
FixtureExtracted ==
    /\ pc = "Success"
    /\ FetchedPage.table = "positional"
    /\ FetchedPage.tbody
    /\ FetchedPage.rows \in FixtureTables

\* C7 as claimed: the fixture yields exactly 3 entries, the malformed row dropped
C7_FixtureYieldsThree ==
    FixtureExtracted => Len(result.dailyTides) = 3

\* C7 amended: the fixture yields 4 entries; the row whose tide event misses its
\* height appears, with that tide slot absent and its other fields extracted
C7_FixtureYieldsFour ==
    FixtureExtracted =>
        /\ Len(result.dailyTides) = 4
        /\ \E i \in 1..4 :
              /\ FetchedPage.rows[i] = MissingHeightRow("4")
              /\ result.dailyTides[i].dayOfMonth = 4
              /\ result.dailyTides[i].tide1 = Some(TideEvent("1:15", "3.2"))
              /\ result.dailyTides[i].tide2 = None

C7_WitnessFixture ==
    /\ FixtureExtracted
    /\ Len(result.dailyTides) = 4
    /\ result.dailyTides[4].tide2 = None

\* the page holds a class-marked tide table with a well-formed day row
HasTideTable ==
    /\ IsSome(html)
    /\ FetchedPage.table \in {"positional", "elsewhere"}
    /\ FetchedPage.tbody
    /\ \E i \in 1..Len(FetchedPage.rows) : FetchedPage.rows[i] = ValidRow("1")

IsDecimal(s) ==
    /\ Len(s) > 0
    /\ \A i \in 1..Len(s) : Ch(s, i) \in Digits \cup {"."}
    /\ \E i \in 1..Len(s) : IsDigit(Ch(s, i))
    /\ Cardinality({i \in 1..Len(s) : Ch(s, i) = "."}) <= 1

TidesOf(d) == {d.tide1, d.tide2, d.tide3, d.tide4}

\* C4 as claimed: every TideEvent of a returned DailyTideInfo has a time of the
\* shape HH:MM and a height that is a non-negative decimal with a dot
C4_TideEventsWellFormed ==
    (pc = "Success" /\ result.kind = "data") =>
        \A i \in 1..Len(result.dailyTides) :
            \A t \in TidesOf(result.dailyTides[i]) :
                IsSome(t) => TimeShape(Val(t).time) /\ IsDecimal(Val(t).height)

\* C8 as claimed: every returned DailyTideInfo has dayOfMonth in 1..31
C8_DayOfMonthInRange ==
    (pc = "Success" /\ result.kind = "data") =>
        \A i \in 1..Len(result.dailyTides) :
            result.dailyTides[i].dayOfMonth \in 1..31

\* the one row of the fetched page
TheRow == FetchedPage.rows[1]

\* the text starts, after white space, with an optionally signed digit
LeadingInteger(s) ==
    LET t == trim(s)
    IN  \/ Len(t) >= 1 /\ IsDigit(Ch(t, 1))
        \/ Len(t) >= 2 /\ Ch(t, 1) \in {"-", "+"} /\ IsDigit(Ch(t, 2))

\* the row has a day-number element whose text parses to an integer
DayTokenParses(row) ==
    LET tok == QueryClassText(row.cells[1], CLS_DIA_NUMERO)
    IN  IsSome(tok) /\ LeadingInteger(Val(tok))

\* the text holds an HH:MM-shaped token
HasTimeToken(s) ==
    \E i \in 1..Len(s) : \E j \in {i + 3, i + 4} :
        j <= Len(s) /\ TimeShape(SubSeq(s, i, j))

SunSourceValid(cell, cls) ==
    LET el == QueryClassText(cell, cls)
    IN  IsSome(el) /\ HasTimeToken(Val(el))

\* the cell holds a time element of shape HH:MM and a numeric height element
TideSourceValid(cell) ==
    LET h == QueryClassText(cell, CLS_HORA)
        a == QueryClassText(cell, CLS_ALTURA)
    IN  /\ IsSome(h) /\ TimeShape(trim(Val(h)))
        /\ IsSome(a) /\ HeightShape(trim(Val(a)))

\* a data row that is not a secondary row and has at least 8 cells was extracted
\* by the class-based revisions
MainRowExtracted ==
    /\ pc = "Success"
    /\ variant \in {"ts", "p4"}
    /\ Len(FetchedPage.rows) = 1
    /\ TheRow.cls = DataRowClass
    /\ Len(TheRow.cells) >= 8

\* C6: a non-secondary row of at least 8 cells is in dailyTides exactly when its
\* day-of-month token parses to an integer (parseInt: an optionally signed
\* leading run of digits); each of sunrise, sunset, tide and coefficient is
\* absent exactly when its own source is absent or invalid, and never rejects
\* the row
C6_RowAcceptedIffDayParses ==
    MainRowExtracted =>
        /\ Len(result.dailyTides) = (IF DayTokenParses(TheRow) THEN 1 ELSE 0)
        /\ DayTokenParses(TheRow) =>
              LET d == result.dailyTides[1]
                  c == TheRow.cells
              IN  /\ IsSome(d.sunriseTime) <=> SunSourceValid(c[3], CLS_SOL_SALIDA)
                  /\ IsSome(d.sunsetTime) <=> SunSourceValid(c[3], CLS_SOL_PUESTA)
                  /\ IsSome(d.tide1) <=> TideSourceValid(c[4])
                  /\ IsSome(d.tide2) <=> TideSourceValid(c[5])
                  /\ IsSome(d.tide3) <=> TideSourceValid(c[6])
                  /\ IsSome(d.tide4) <=> TideSourceValid(c[7])
                  /\ IsSome(d.coefficient) <=> IsSome(QueryClassText(c[8], CLS_COEF))

C6_WitnessInvalidSubfields ==
    /\ MainRowExtracted
    /\ DayTokenParses(TheRow)
    /\ Len(TheRow.cells[4]) > 0
    /\ ~TideSourceValid(TheRow.cells[4])
    /\ ~SunSourceValid(TheRow.cells[3], CLS_SOL_SALIDA)
    /\ Len(TheRow.cells[8]) = 0
    /\ Len(result.dailyTides) = 1
    /\ result.dailyTides[1].tide1 = None
    /\ IsSome(result.dailyTides[1].tide2)
    /\ IsSome(result.dailyTides[1].sunsetTime)

(***************************************************************************)
(* Properties of the tide-cell helpers.                                    *)
(***************************************************************************)
\* digits, one comma, digits
CommaDecimal(s) ==
    \E i \in 2..(Len(s) - 1) :
        /\ Ch(s, i) = ","
        /\ \A j \in (1..Len(s)) \ {i} : IsDigit(Ch(s, j))

\* the text with every comma turned into a dot
WithDot(s) ==
    [i \in 1..Len(s) |-> IF Ch(s, i) = "," THEN "." ELSE Ch(s, i)]

RECURSIVE Join(_)
Join(cs) == IF Len(cs) = 0 THEN "" ELSE Head(cs) \o Join(Tail(cs))

\* the text without a trailing unit " m"
NumberPart(s) == IF EndsWith(s, " m") THEN SubSeq(s, 1, Len(s) - 2) ELSE s

CellHora == QueryClassText(Val(fnArg), CLS_HORA)

CellAltura == QueryClassText(Val(fnArg), CLS_ALTURA)

\* extractTideEvent ran on a cell with a valid HH:MM time element and a height element
TimedCellExtracted ==
    /\ fnName = "extractTideEvent"
    /\ IsSome(CellHora) /\ TimeShape(trim(Val(CellHora)))
    /\ IsSome(CellAltura)

\* the text of the cell as a blob: the part before its first line break and the
\* part after it
BlobBreak == IndexOf(textContent(Val(fnArg)), "\n")

BlobTime == SubSeq(textContent(Val(fnArg)), 1, BlobBreak - 1)

BlobHeight ==
    SubSeq(textContent(Val(fnArg)), BlobBreak + 1, Len(textContent(Val(fnArg))))

\* C9 as claimed: a valid time with a comma-decimal height text, the unit of
\* "3,2 m" included, yields the event with the comma replaced by a dot
C9_CommaHeightExtracted ==
    (TimedCellExtracted /\ CommaDecimal(NumberPart(trim(Val(CellAltura))))) =>
        fnOut = Some(TideEvent(trim(Val(CellHora)),
                               Join(WithDot(NumberPart(trim(Val(CellAltura)))))))

\* C9 amended: extractTideEvent yields the event with the comma replaced by a
\* dot when the height element holds the comma-decimal number alone ("3,2"), and
\* no event when it also holds the unit ("3,2 m"); parseTideCell yields the
\* dotted number for a blob "HH:MM\n3,2" with or without the unit
C9_CommaHeightOfNumberElement ==
    /\ TimedCellExtracted =>
          LET a == trim(Val(CellAltura))
          IN  /\ CommaDecimal(a) =>
                    fnOut = Some(TideEvent(trim(Val(CellHora)), Join(WithDot(a))))
              /\ (EndsWith(a, " m") /\ CommaDecimal(NumberPart(a))) => fnOut = None
    /\ ( /\ fnName = "parseTideCell"
         /\ BlobBreak > 0
         /\ TimeShape(trim(BlobTime))
         /\ CommaDecimal(NumberPart(trim(BlobHeight))) )
          => fnOut = Some(TideEvent(trim(BlobTime),
                                    Join(WithDot(NumberPart(trim(BlobHeight))))))

C9_WitnessCommaHeight ==
    /\ TimedCellExtracted
    /\ trim(Val(CellAltura)) = "3,3"
    /\ fnOut = Some(TideEvent("7:30", "3.3"))

(***************************************************************************)
(* Properties of the call's control flow.                                  *)
(***************************************************************************)
\* C11: a call issues at most one fetch request; after a failed fetch no
\* second request is made within the call, and the failure is reported upward
\* as the failure signal
C11_AtMostOneFetch ==
    /\ fetchCount <= 1
    /\ FetchFailed =>
          /\ fetchCount = 1
          /\ pc = "CriticalFailure"
          /\ result = Null
          /\ apc = "returned" => actionResult = Null

C11_WitnessFailedOnce ==
    /\ FetchFailed
    /\ Val(response).kind = "reject"
    /\ fetchCount = 1
    /\ result = Null
    /\ entry = "action"
    /\ apc = "returned"

\* the position of a stage in the order of one pass
Rank(stage) ==
    CASE stage = "idle"            -> 0
      [] stage = "Requesting"      -> 1
      [] stage = "Fetched"         -> 2
      [] stage = "Located"         -> 3
      [] stage = "Extracted"       -> 4
      [] stage = "Assembled"       -> 5
      [] stage \in Terminal        -> 6

\* C12: within one call the stages only advance in the order Requesting,
\* Fetched, Located, Extracted, Assembled: no stage is re-entered and no step
\* goes backward; the call has a result exactly when it is in Success (a
\* ScrapedPageData) or CriticalFailure (null), and from there neither the stage
\* nor the result changes again
C12_StagesOnlyAdvance ==
    /\ [][/\ pc' # pc => Rank(pc') > Rank(pc)
          /\ pc \in Terminal => pc' = pc /\ result' = result]_vars
    /\ [](/\ pc = "Success" <=> result.kind = "data"
          /\ pc = "CriticalFailure" <=> result = Null
          /\ pc \notin Terminal <=> result = Pending)

C12_WitnessFullPass ==
    /\ pc = "Success"
    /\ Len(rows) >= 2
    /\ rowIdx > Len(rows)
    /\ Len(dailyTides) > 0
    /\ result.kind = "data"
    /\ result.dailyTides = dailyTides

(***************************************************************************)
(* Order of the assembled data.                                            *)
(***************************************************************************)
\* the rows of rs that yield a DailyTideInfo, in the order of rs
RECURSIVE AcceptedRows(_)
AcceptedRows(rs) ==
    IF Len(rs) = 0 THEN <<>>
    ELSE (IF IsSome(ExtractRow(variant, Head(rs))) THEN <<Head(rs)>> ELSE <<>>)
         \o AcceptedRows(Tail(rs))

\* the rows forEach has visited
VisitedRows == SubSeq(rows, 1, rowIdx - 1)

\* the time a tide cell shows: the first line of its text
SourceTime(cell) == trim(Head(SplitLines(trim(textContent(cell)))))

\* minutes since midnight of a time of the shape HH:MM
Minutes(t) ==
    LET i == IndexOf(t, ":")
    IN  60 * DecValue(SubSeq(t, 1, i - 1)) + DecValue(SubSeq(t, i + 1, Len(t)))

Ascending(ts) ==
    /\ \A k \in 1..Len(ts) : TimeShape(ts[k])
    /\ \A k \in 1..(Len(ts) - 1) : Minutes(ts[k]) < Minutes(ts[k + 1])

TideSlots(d) == <<d.tide1, d.tide2, d.tide3, d.tide4>>

\* C13: dailyTides lists the accepted rows in the order the rows occur in the
\* table; tide1..tide4 of an entry are the events of its row's four tide cells
\* in column order, not re-sorted, so a row whose four cells are time-ascending
\* yields tide1..tide4 time-ascending
C13_SourceOrderPreserved ==
    pc \in {"Located", "Extracted", "Assembled"} \/ (pc = "Success" /\ rowIdx > 0) =>
        LET src == AcceptedRows(VisitedRows)
        IN  /\ Len(dailyTides) = Len(src)
            /\ pc = "Success" => result.dailyTides = dailyTides
            /\ \A i \in 1..Len(src) :
                  LET d     == dailyTides[i]
                      cells == SubSeq(src[i].cells, 4, 7)
                      times == [k \in 1..4 |-> SourceTime(cells[k])]
                  IN  /\ d = Val(ExtractRow(variant, src[i]))
                      /\ \A k \in 1..4 :
                            IsSome(TideSlots(d)[k]) =>
                                Val(TideSlots(d)[k]).time = times[k]
                      /\ Ascending(times) =>
                            /\ \A k \in 1..4 : IsSome(TideSlots(d)[k])
                            /\ Ascending([k \in 1..4 |-> Val(TideSlots(d)[k]).time])

C13_WitnessTwoDaysFourTides ==
    /\ pc = "Success"
    /\ rows = <<UnsortedTideRow("8"), FourTideRow("7")>>
    /\ Len(result.dailyTides) = 2
    /\ result.dailyTides[1].dayOfMonth = 8
    /\ result.dailyTides[2].dayOfMonth = 7
    /\ result.dailyTides[1].tide1 = Some(TideEvent("13:10", "3.0"))
    /\ result.dailyTides[2].tide4 = Some(TideEvent("19:25", "0.6"))

(***************************************************************************)
(* Properties of normalizeToSlug.                                          *)
(***************************************************************************)
SlugApplied == fnName \in {"normalizeToSlug", "normalizeToSlugPicker"}

SlugAppliedAgain == fnName \in {"normalizeToSlug again", "normalizeToSlugPicker again"}

\* "sao-luis"
SaoLuisSlug == <<115, 97, 111, 45, 108, 117, 105, 115>>

\* C14: normalizeToSlug is idempotent: applied to a slug it returned, it
\* returns that slug; and normalizeToSlug("São Luís") = "sao-luis"
C14_SlugIdempotent ==
    /\ SlugAppliedAgain => fnOut = fnArg
    /\ (SlugApplied /\ fnArg = Some(SaoLuis)) => fnOut = Some(SaoLuisSlug)

C14_WitnessHyphenatedSlug ==
    /\ fnName = "normalizeToSlug again"
    /\ fnArg = Some(SaoLuisSlug)
    /\ fnOut = Some(SaoLuisSlug)

\* a-z, 0-9 and the hyphen
SlugCharacters == 97..122 \cup 48..57 \cup {45}

\* C15: normalizeToSlug returns for every input, empty, white space only or
\* made only of removed characters included, a text of the characters a-z,
\* 0-9 and hyphen, and the empty text for the empty input
C15_SlugTotal ==
    /\ fnName # "none" =>
          /\ IsSome(fnOut)
          /\ \A i \in 1..Len(Val(fnOut)) : Val(fnOut)[i] \in SlugCharacters
    /\ (SlugApplied /\ fnArg = Some(<<>>)) => fnOut = Some(<<>>)
    /\ (fnName = "normalizeToSlug"
          /\ \A i \in 1..Len(Val(fnArg)) :
                Val(fnArg)[i] \in JsWhiteSpace \cup {33, 771})
         => fnOut = Some(<<>>)

C15_WitnessOnlyRemoved ==
    /\ fnName = "normalizeToSlug"
    /\ fnArg = Some(<<32, 33, 771, 32>>)
    /\ fnOut = Some(<<>>)

(***************************************************************************)
(* Independence of concurrent calls.                                       *)
(***************************************************************************)
\* every row of rs extracted, in the order of rs
RECURSIVE ExtractAll(_)
ExtractAll(rs) ==
    IF Len(rs) = 0 THEN <<>>
    ELSE ExtractRow(variant, Head(rs)) \o ExtractAll(Tail(rs))

\* what a call resolves to from its arguments and the markup it fetched
ResultAlone(l) ==
    IF l.stateSlug = "" \/ l.citySlug = "" THEN Null
    ELSE IF l.html = None THEN Null
    ELSE LET page == Val(l.html)
         IN  IF TableLocated(variant, page)
             THEN ScrapedPageData(variant, ExtractAll(QueryRows(variant, page)),
                                  ContextText(page), LocationHeader(page),
                                  MonthYearText(page))
             ELSE EmptyResult(variant, page)

\* C16: whatever the interleaving of two calls in flight, each call that has
\* ended resolved to what it resolves to alone on the markup it fetched
C16_ConcurrentCallsIndependent ==
    IsSome(peer) =>
        \A l \in {Locals(3 - Val(peer).id), Val(peer)} :
            l.pc \in Terminal => l.result = ResultAlone(l)

\* one call has ended on four rows while the other is in the middle of its rows
C16_WitnessInterleaved ==
    /\ IsSome(peer)
    /\ pc = "Success"
    /\ Len(result.dailyTides) = 4
    /\ Val(peer).pc = "Located"
    /\ Val(peer).rowIdx = 3
    /\ Len(Val(peer).dailyTides) = 1

(***************************************************************************)
(* Properties of the location picker.                                      *)
(***************************************************************************)
\* the step in which the text-input picker takes the outcome of its fetch
FetchCompletes ==
    picker = "p2" /\ mounted /\ isLoading /\ apc = "returned" /\ mounted' /\ ~isLoading'

EmptyResultReturned == actionResult.kind = "data" /\ Len(actionResult.dailyTides) = 0

\* C17: when a fetch completes, the picker renders the "no tide data" notice
\* and not the failure alert for a result with empty dailyTides, and the
\* failure alert for the failure signal null: never the same message for
\* both, never nothing
C17_OutcomeNoticeRendered ==
    [][FetchCompletes =>
          /\ actionResult = Null =>
                (AlertRendered /\ AlertTitle = "Falha na Busca")'
          /\ EmptyResultReturned =>
                (AlertRendered /\ AlertTitle = "Sem Dados de Mare")']_vars

\* the user has chosen a state and then a city
PickedLocation ==
    /\ picked.state # ""
    /\ picked.city # "" \/ TrimText(picked.cityName) # <<>>

\* C18: after the user chose a state and then a city, a later mount of the
\* picker restores that state and that city from the storage
C18_MountRestoresLocation ==
    [][(~mounted /\ mounted' /\ PickedLocation) =>
          /\ selectedState' = picked.state
          /\ selectedCity' = picked.city
          /\ cityName' = picked.cityName]_vars

\* ---- C19 ----

TheCell == Val(fnArg)

\* the same content encoded as one text blob
BlobOf(cell) == <<TextNode(textContent(cell))>>

IsBlobCell(cell) == \A i \in 1..Len(cell) : cell[i].tag = "#text"

\* a text node holding a line break lies between the time and the height element
SeparatedByBreak(cell) ==
    \E h, b, a \in 1..Len(cell) :
        /\ h < b /\ b < a
        /\ Contains(cell[h].cls, CLS_HORA)
        /\ cell[b].tag = "#text" /\ Contains(cell[b].text, "\n")
        /\ Contains(cell[a].cls, CLS_ALTURA)

ApplyExtractor(cell) ==
    IF fnName = "extractTideEvent" THEN extractTideEvent(cell)
    ELSE parseTideCell(textContent(cell))

OneRowExtracted ==
    /\ pc = "Success"
    /\ variant \in {"ts", "p4"}
    /\ Len(FetchedPage.rows) = 1
    /\ Len(TheRow.cells) >= 8

\* C20: a row whose class marks it as secondary contributes no entry whatever
\* its cells contain, and a row without the marker is never dropped as secondary
\* because of its content: with a parsable day number it contributes an entry
\* even when a cell carries the marker in its own class and text
C20_SecondaryByClassOnly ==
    OneRowExtracted =>
        /\ TheRow.cls = SecondaryRowClass => result.dailyTides = <<>>
        /\ (TheRow.cls = DataRowClass /\ DayTokenParses(TheRow)) =>
              Len(result.dailyTides) = 1

C20_WitnessSecondaryWithData ==
    /\ OneRowExtracted
    /\ TheRow.cls = SecondaryRowClass
    /\ DayTokenParses(TheRow)
    /\ TideSourceValid(TheRow.cells[4])
    /\ result.dailyTides = <<>>

C20_WitnessMarkerInContent ==
    /\ OneRowExtracted
    /\ TheRow.cls = DataRowClass
    /\ TheRow.cells[8] = MarkedCoefCell
    /\ Len(result.dailyTides) = 1

\* ---- C21 ----

RECURSIVE LongRows(_)
\* the rows of at least 8 cells, in their order
LongRows(rs) ==
    IF Len(rs) = 0 THEN <<>>
    ELSE (IF Len(Head(rs).cells) >= MIN_CELLS THEN <<Head(rs)>> ELSE <<>>)
         \o LongRows(Tail(rs))

ShortRowVisited == \E i \in 1..(rowIdx - 1) : Len(rows[i].cells) < MIN_CELLS

\* C21: a row of fewer than 8 cells contributes no entry and does not stop the
\* traversal: the entries are those the visited rows of at least 8 cells yield,
\* as if the short rows were not in the table, and a call whose fetch gave a
\* document ends in Success with every row visited
C21_ShortRowSkippedNotFatal ==
    /\ pc \in {"Located", "Extracted", "Assembled"} =>
          /\ dailyTides = ExtractAll(LongRows(VisitedRows))
          /\ Len(dailyTides) <= Len(LongRows(VisitedRows))
    /\ pc \in {"Extracted", "Assembled"} => VisitedRows = rows
    /\ (pc \in Terminal /\ IsSome(html)) =>
          /\ pc = "Success"
          /\ VisitedRows = rows
          /\ result.dailyTides = ExtractAll(LongRows(rows))

\* a call ended in Success on a table whose short row is followed by a row that
\* gave an entry
C21_WitnessShortThenValid ==
    /\ pc = "Success"
    /\ Len(rows) = 2
    /\ Len(rows[1].cells) < MIN_CELLS
    /\ IsSome(ExtractRow(variant, rows[2]))
    /\ Len(result.dailyTides) = 1

\* ---- C22 ----

\* the row has the class of a day row, at least 8 cells and a day number
Qualifies(row) ==
    /\ row.cls # SecondaryRowClass
    /\ Len(row.cells) >= MIN_CELLS
    /\ DayTokenParses(row)

RECURSIVE QualifyingRows(_)
QualifyingRows(rs) ==
    IF Len(rs) = 0 THEN <<>>
    ELSE (IF Qualifies(Head(rs)) THEN <<Head(rs)>> ELSE <<>>)
         \o QualifyingRows(Tail(rs))

\* the event a tide cell holds, read the way the revision reads it
CellEvent(cell) ==
    IF variant = "p6" THEN parseTideCell(textContent(cell)) ELSE extractTideEvent(cell)

\* C22: tideN of an entry is the event of the N-th tide cell of its row and of
\* no other cell: a slot is filled exactly when its own cell holds a valid
\* event, the other slots are absent, and a row is accepted whatever the number
\* of its valid tide events
C22_SlotsFromOwnCells ==
    (pc = "Success" /\ rowIdx > 0) =>
        /\ variant \in {"ts", "p4"} =>
              LET src == QualifyingRows(rows)
              IN  /\ Len(result.dailyTides) = Len(src)
                  /\ \A i \in 1..Len(src) : \A k \in 1..4 :
                        IsSome(TideSlots(result.dailyTides[i])[k])
                            <=> TideSourceValid(src[i].cells[3 + k])
        /\ LET acc == AcceptedRows(rows)
           IN  \A i \in 1..Len(acc) : \A k \in 1..4 :
                   TideSlots(result.dailyTides[i])[k] = CellEvent(acc[i].cells[3 + k])

\* a table of a day with only tide1 and tide2 and a day with only tide2 and tide4
C22_WitnessTwoOfFour ==
    /\ pc = "Success"
    /\ variant = "ts"
    /\ rows = <<ValidRow("1"), GapTideRow("9")>>
    /\ Len(result.dailyTides) = 2
    /\ IsSome(result.dailyTides[1].tide1) /\ IsSome(result.dailyTides[1].tide2)
    /\ result.dailyTides[1].tide3 = None /\ result.dailyTides[1].tide4 = None
    /\ result.dailyTides[2].tide1 = None /\ result.dailyTides[2].tide3 = None
    /\ result.dailyTides[2].tide2 = Some(TideEvent("7:02", "0.5"))
    /\ result.dailyTides[2].tide4 = Some(TideEvent("19:25", "0.6"))

\* ---- C23 ----

RECURSIVE TimeTokensFrom(_, _)
\* the HH:MM-shaped tokens of the text from position i on, left to right
TimeTokensFrom(s, i) ==
    IF i > Len(s) THEN <<>>
    ELSE IF i + 4 <= Len(s) /\ TimeShape(SubSeq(s, i, i + 4))
         THEN <<SubSeq(s, i, i + 4)>> \o TimeTokensFrom(s, i + 5)
    ELSE IF i + 3 <= Len(s) /\ TimeShape(SubSeq(s, i, i + 3))
         THEN <<SubSeq(s, i, i + 3)>> \o TimeTokensFrom(s, i + 4)
    ELSE TimeTokensFrom(s, i + 1)

TimeTokens(cell) == TimeTokensFrom(textContent(cell), 1)

\* the call finished on a page of one generated row, which gave an entry
RowAccepted ==
    /\ pc = "Success"
    /\ Len(FetchedPage.rows) = 1
    /\ Len(result.dailyTides) = 1

\* C23: sunriseTime and sunsetTime of an accepted row are the first and the
\* second HH:MM-shaped token of the text of the row's sun cell, each absent when
\* the cell has no such token, and every value that is not absent is HH:MM-shaped
C23_SunTimesFirstTwoTokens ==
    RowAccepted =>
        LET d    == result.dailyTides[1]
            toks == TimeTokens(TheRow.cells[3])
        IN  /\ d.sunriseTime = (IF Len(toks) >= 1 THEN Some(toks[1]) ELSE None)
            /\ d.sunsetTime = (IF Len(toks) >= 2 THEN Some(toks[2]) ELSE None)
            /\ IsSome(d.sunriseTime) => TimeShape(Val(d.sunriseTime))
            /\ IsSome(d.sunsetTime) => TimeShape(Val(d.sunsetTime))

\* ---- C24 ----

DisplaySlugs == {BRAZILIAN_STATES[i].slug : i \in 1..Len(BRAZILIAN_STATES)}

\* the entries of the state list whose request slug is not their display slug
DivergingStates ==
    {i \in 1..Len(BRAZILIAN_STATES) :
        StateSlugForApi(BRAZILIAN_STATES[i]) # BRAZILIAN_STATES[i].slug}

\* C24: the state slug of the request is the display slug of the selected state,
\* except for the one entry Sao Paulo of the state list, whose request slug is
\* "so-paulo" while its display slug is "sao-paulo"; the slug kept in storage
\* and the slug restored from it are display slugs
C24_RequestSlugException ==
    /\ Cardinality(DivergingStates) = 1
    /\ \A i \in DivergingStates :
          /\ BRAZILIAN_STATES[i].slug = "sao-paulo"
          /\ StateSlugForApi(BRAZILIAN_STATES[i]) = "so-paulo"
    /\ picker = "p2" =>
          /\ isLoading =>
                stateSlug = (IF selectedState = "sao-paulo" THEN "so-paulo"
                             ELSE selectedState)
          /\ IsSome(localStorage["selectedStateSlug"]) =>
                Val(localStorage["selectedStateSlug"]) \in DisplaySlugs
          /\ (mounted /\ selectedState # "") =>
                /\ selectedState \in DisplaySlugs
                /\ localStorage["selectedStateSlug"] = Some(selectedState)

\* Sao Paulo is selected and stored, and the request of a fetch is under way
C24_WitnessSaoPauloRequest ==
    /\ picker = "p2"
    /\ isLoading
    /\ pc = "Requesting"
    /\ selectedState = "sao-paulo"
    /\ stateSlug = "so-paulo"
    /\ localStorage["selectedStateSlug"] = Some("sao-paulo")

\* ---- C25 ----

\* C25: a call whose fetch has settled, with a response or with an error,
\* reaches Success or CriticalFailure; rows.forEach moves from each row to the
\* next one only, and after the fetch every stage before the return has a step
\* to take without waiting
C25_SettledCallTerminates ==
    /\ IsSome(response) ~> pc \in Terminal
    /\ [][rowIdx' # rowIdx => (rowIdx' = rowIdx + 1 /\ rowIdx' <= Len(rows') + 1)]_vars
    /\ [](pc \in {"Fetched", "Located", "Extracted", "Assembled"} =>
            (ENABLED <<SyncStep>>_vars \/ ENABLED <<ForEachAdvances>>_rowIdx))

\* the call returned after rows.forEach went through a table of four rows
C25_WitnessAllRowsVisited ==
    /\ pc = "Success"
    /\ entry = "service"
    /\ IsSome(response)
    /\ Len(rows) = 4
    /\ rowIdx = 5

\* ---- C26 ----

\* the call ended in the catch of getTideData after the fetch had succeeded
ThrownAfterFetch ==
    /\ pc = "CriticalFailure"
    /\ IsSome(response)
    /\ ~FetchHtmlThrows(Val(response))

ResultShown ==
    /\ mounted
    /\ IF picker = "p2" THEN showResults ELSE showTideTable

\* the request that produced the stored result was made for the location
\* that is selected now
SelectionIsRequested ==
    IF picker = "p2"
    THEN /\ IsSome(FindState(selectedState))
         /\ stateSlug = StateSlugForApi(Val(FindState(selectedState)))
         /\ citySlug = SlugText(normalizeToSlugPicker(TrimText(cityName)))
    ELSE /\ stateSlug = selectedState
         /\ citySlug = selectedCity

\* C27: a tide result on screen always belongs to the state and city that
\* are selected at that moment; a response that arrives after the selection
\* has changed is not shown under the new selection.
C27_ResultForSelectedLocation == ResultShown => SelectionIsRequested

\* C28: the picker's normalizeToSlug and the service's normalizeToSlug return
\* the same slug for every input, whatever the order of trim and of the
\* removal of invalid characters.
C28_PickerSlugEqualsServiceSlug ==
    fnName \in {"normalizeToSlug", "normalizeToSlugPicker"} =>
        /\ fnOut = Some(IF fnName = "normalizeToSlug"
                        THEN normalizeToSlug(Val(fnArg))
                        ELSE normalizeToSlugPicker(Val(fnArg)))
        /\ normalizeToSlug(Val(fnArg)) = normalizeToSlugPicker(Val(fnArg))

(***************************************************************************)
(* The tide chart: parseTideTime and the data point of one tide event      *)
(* (tide-chart.tsx).  A month-year label may hold any character, so it is  *)
(* the sequence of its code points; a time is a string, as in the service. *)
(***************************************************************************)
\* \w of a regular expression without the u flag: [A-Za-z0-9_]
IsWordChar(c) == c \in 65..90 \/ c \in 97..122 \/ c \in 48..57 \/ c = 95

\* " de " and four digits from position i of t on
DeYearAt(t, i) ==
    /\ i + 7 <= Len(t)
    /\ SubSeq(t, i, i + 3) = <<32, 100, 101, 32>>
    /\ \A k \in (i + 4)..(i + 7) : t[k] \in 48..57

\* the last position of the run of word characters that holds position i
RECURSIVE WordEnd(_, _)
WordEnd(t, i) ==
    IF i < Len(t) /\ IsWordChar(t[i + 1]) THEN WordEnd(t, i + 1) ELSE i

\* monthYearStr.match(/(\w+) de (\d{4})/): the leftmost match; \w+ is greedy
\* and what follows it is a space, so it ends with its run of word characters
RECURSIVE MatchMonthYearFrom(_, _)
MatchMonthYearFrom(t, i) ==
    IF i > Len(t) THEN None
    ELSE IF IsWordChar(t[i]) /\ DeYearAt(t, WordEnd(t, i) + 1)
         THEN Some([monthName |-> SubSeq(t, i, WordEnd(t, i)),
                    year      |-> SubSeq(t, WordEnd(t, i) + 5, WordEnd(t, i) + 8)])
    ELSE MatchMonthYearFrom(t, i + 1)

MatchMonthYear(t) == MatchMonthYearFrom(t, 1)

\* the keys of monthMap in the order of their values 0..11: janeiro,
\* fevereiro, marco with c-cedilla (231), abril, maio, junho, julho, agosto,
\* setembro, outubro, novembro, dezembro
monthKeys ==
    << <<106, 97, 110, 101, 105, 114, 111>>,
       <<102, 101, 118, 101, 114, 101, 105, 114, 111>>,
       <<109, 97, 114, 231, 111>>,
       <<97, 98, 114, 105, 108>>,
       <<109, 97, 105, 111>>,
       <<106, 117, 110, 104, 111>>,
       <<106, 117, 108, 104, 111>>,
       <<97, 103, 111, 115, 116, 111>>,
       <<115, 101, 116, 101, 109, 98, 114, 111>>,
       <<111, 117, 116, 117, 98, 114, 111>>,
       <<110, 111, 118, 101, 109, 98, 114, 111>>,
       <<100, 101, 122, 101, 109, 98, 114, 111>> >>

\* monthMap[key]: None for undefined
monthMap(key) ==
    IF \E i \in 1..Len(monthKeys) : monthKeys[i] = key
    THEN Some((CHOOSE i \in 1..Len(monthKeys) : monthKeys[i] = key) - 1)
    ELSE None

\* parseInt(year, 10) of a run of digits given as code points
RECURSIVE CodeDecValue(_)
CodeDecValue(ds) ==
    IF Len(ds) = 0 THEN 0
    ELSE 10 * CodeDecValue(SubSeq(ds, 1, Len(ds) - 1)) + (ds[Len(ds)] - 48)

\* new Date(year, monthIndex, day, hours, minutes) of finite numbers: always a
\* valid Date (fields out of range roll over); a year 0..99 means 1900 + year
NewDate(year, monthIndex, day, hours, minutes) ==
    [kind |-> "date",
     year |-> IF year <= 99 THEN 1900 + year ELSE year,
     monthIndex |-> monthIndex, day |-> day,
     hours |-> hours, minutes |-> minutes]

\* tide-chart.tsx:50-84
parseTideTime(day, timeStr, monthYearStr) ==
    IF timeStr = "" \/ ~IsSome(monthYearStr) \/ Val(monthYearStr) = <<>> THEN Null
    ELSE LET timeMatch      == TimeShape(timeStr)
             monthYearMatch == MatchMonthYear(Val(monthYearStr))
         IN  IF ~timeMatch \/ ~IsSome(monthYearMatch) THEN Null
             ELSE LET hours      == TakeWhile(timeStr, Digits)
                      minutes    == SubSeq(timeStr, Len(timeStr) - 1, Len(timeStr))
                      monthName  == Val(monthYearMatch).monthName
                      year       == Val(monthYearMatch).year
                      monthIndex == monthMap(toLowerCase(monthName))
                  IN  IF ~IsSome(monthIndex) THEN Null
                      ELSE NewDate(CodeDecValue(year), Val(monthIndex), day,
                                   DecValue(hours), DecValue(minutes))

\* isNaN(parseFloat(height)) for a height made of digits and dots, as the
\* service emits it
HeightIsNaN(height) ==
    ~ \/ Len(height) >= 1 /\ IsDigit(Ch(height, 1))
      \/ Len(height) >= 2 /\ Ch(height, 1) = "." /\ IsDigit(Ch(height, 2))

\* tide-chart.tsx:100-121  the body of tides.forEach for one tide event: the
\* data point pushed, if any
DataPointOf(day, tide, monthYear) ==
    IF tide.time # "" /\ tide.height # ""
    THEN LET dateTime == parseTideTime(day, tide.time, monthYear)
         IN  IF dateTime # Null /\ ~HeightIsNaN(tide.height)
             THEN Some([originalDateTime |-> dateTime, height |-> tide.height,
                        dayOfMonth |-> day])
             ELSE None
    ELSE None

\* the first letter in upper case
Capitalised(t) == <<t[1] - 32>> \o Tail(t)

\* " de 2025"
DeYear == <<32, 100, 101, 32, 50, 48, 50, 53>>

\* the labels of the twelve months, in lower case and capitalised, and labels
\* of other shapes: none, empty, "maio 2025", "Tabua de mares de maio de 2025"
MonthLabels ==
    {Some(monthKeys[i] \o DeYear) : i \in 1..Len(monthKeys)}
    \cup {Some(Capitalised(monthKeys[i]) \o DeYear) : i \in 1..Len(monthKeys)}
    \cup {None, Some(<<>>), Some(<<109, 97, 105, 111, 32, 50, 48, 50, 53>>),
          Some(<<84, 97, 98, 117, 97, 32, 100, 101, 32, 109, 97, 114, 101, 115,
                 32, 100, 101, 32>> \o monthKeys[5] \o DeYear)}

ChartTimes == {"7:02", "07:02", "0:00", "23:59", "7:2", "7h02", ""}

ChartHeights == {"0.5", "1.25", ".", ""}

ChartDays == {1, 31}

\* HH:MM with an hour of the day and a minute of the hour
ValidTime(timeStr) ==
    /\ TimeShape(timeStr)
    /\ DecValue(TakeWhile(timeStr, Digits)) <= 23
    /\ DecValue(SubSeq(timeStr, Len(timeStr) - 1, Len(timeStr))) <= 59

InitChart ==
    /\ variant = "ts"
    /\ entry = "service"
    /\ stateSlug = "para"
    /\ citySlug = "belem"
    /\ CallIdle
    /\ fnName = "none"
    /\ fnArg \in {Some([day |-> d, tide |-> [time |-> t, height |-> h], monthYear |-> m]) :
                     d \in ChartDays, t \in ChartTimes, h \in ChartHeights,
                     m \in MonthLabels}
    /\ fnOut = None
    /\ peer = None
    /\ PickerIdle

\* parseTideTime(dayInfo.dayOfMonth, tide.time, monthYear)
RunParseTideTime ==
    /\ fnName = "none"
    /\ fnName' = "parseTideTime"
    /\ fnOut' = Some(parseTideTime(Val(fnArg).day, Val(fnArg).tide.time,
                                   Val(fnArg).monthYear))
    /\ UNCHANGED fnArg
    /\ UNCHANGED <<callVars, peer, uiVars>>

\* the chart's loop body on the tide event
RunDataPoint ==
    /\ fnName = "none"
    /\ fnName' = "dataPoint"
    /\ fnOut' = DataPointOf(Val(fnArg).day, Val(fnArg).tide, Val(fnArg).monthYear)
    /\ UNCHANGED fnArg
    /\ UNCHANGED <<callVars, peer, uiVars>>

NextChart == RunParseTideTime \/ RunDataPoint

SpecChart == InitChart /\ [][NextChart]_vars

\* the label is "<month> de <year>" with one of the twelve names of monthMap
IsMonthLabel(m) ==
    /\ IsSome(m)
    /\ \E i \in 1..Len(monthKeys) : Val(m) = monthKeys[i] \o DeYear

\* C30: for every valid HH:MM time and every label "<month> de <year>" whose
\* month is one of the twelve names of the month map, parseTideTime returns a
\* Date and not null, and the tide event becomes a chart point.
C30_EveryMonthParses ==
    (ValidTime(Val(fnArg).tide.time) /\ IsMonthLabel(Val(fnArg).monthYear)) =>
        /\ fnName = "parseTideTime" => Val(fnOut) # Null
        /\ (fnName = "dataPoint" /\ ~HeightIsNaN(Val(fnArg).tide.height)) => IsSome(fnOut)

\* C29: in the select pickers a city held in storage is accompanied by a
\* stored state whose city list contains that city, after any sequence of
\* mounts, state changes and city changes.
C29_StoredCityHasStoredState ==
    (picker \in {"tf", "p3"} /\ Truthy(localStorage["selectedCity"])) =>
        /\ Truthy(localStorage["selectedState"])
        /\ IsSome(CitiesOf(picker, Val(localStorage["selectedState"])))
        /\ Includes(Val(CitiesOf(picker, Val(localStorage["selectedState"]))),
                    Val(localStorage["selectedCity"]))
====
